---- MODULE Spec2Model ----
(***************************************************************************)
(* A model of the justmigrate SQL front end: the hand-written lexer        *)
(* (src/tokenizer.go), the error-recovering recursive-descent parser       *)
(* (src/parser/parser.go and its core, src/unnamed/part_002) and the       *)
(* structural equality of the AST (src/unnamed/part_001).                  *)
(*                                                                         *)
(* Several specifications share the module.  SpecLex drives the lexer     *)
(* over every source text of at most MaxLen code points; SpecParse drives  *)
(* Statements() over every token sequence of at most MaxToks tokens;       *)
(* SpecEq and SpecEqPairs apply Eq to bounded AST nodes; SpecExpr runs     *)
(* Expr(0) of both parsers over bounded operator expressions; SpecRender   *)
(* renders the snippet header of a label (src/report.go); SpecCall calls   *)
(* single parsing methods of the three parser copies on short sources.     *)
(***************************************************************************)
EXTENDS Integers, Sequences, FiniteSets, TLC

VARIABLES
    \* ---- lexer (src/tokenizer.go: Tokenizer) ----
    Raw,        \* SourceCode.Raw, the buffer of code points
    Cur,        \* TokenizerData.Cur
    Bol,        \* TokenizerData.Bol
    Row,        \* TokenizerData.Row
    lexPanic,   \* a rune was read at an index >= len(Raw): Go panics
    lexOp,      \* the last call made on the lexer: "init", "next" or "peek"
    lastToken,  \* the token that call returned
    prevCur,    \* Cur when that call started
    emitted,    \* leading + text + trailing of every token NextToken returned
    \* ---- parser (src/parser/parser.go: Parser) ----
    toks,       \* the kinds of the tokens of the source, in source order
    lexPos,     \* how many of them Parser.Lexer has produced
    cur,        \* Parser.CurrentToken
    peeked,     \* Parser.PeekedToken
    errors,     \* Parser.Errors: source range -> report
    ctx,        \* Parser.ParseContext, the parse-context stack
    stack,      \* the Go call stack: one frame per active parsing method
    panicking,  \* a panic is unwinding the call stack
    retTok,     \* the token the last Expect call returned
    retNode,    \* the node the last parsing method returned
    stmts,      \* the statements slice of Statements()
    abortAt,    \* the range of CurrentToken when the last panic was raised
    abortDepth, \* the depth of the parse-context stack at that moment
    resumeAt,   \* the range of CurrentToken when synchronize last returned
    \* ---- AST equality (src/unnamed/part_001: package ast) ----
    eqFamily,   \* the interface the compared nodes implement
    eqA,        \* three nodes of that family
    eqB,
    eqC,
    eqResult,   \* the outcomes of the Eq calls made on them
    \* ---- expressions (Parser.Expr of src/parser/parser.go and src/parser.go) ----
    exprParser, \* the parser whose Expr ran: "sqlite" or "main"; "none" before
    exprToks,   \* the kinds of the tokens of the expression's source
    exprResult, \* what Expr(0) returned and where it left the parser
    \* ---- diagnostics (src/report.go: Renderer) ----
    repRaw,     \* Label.Source.Raw
    repRange,   \* Label.Range
    repHeader,  \* the line and column of the snippet header Render wrote
    \* ---- one call of a parsing method (src/parser/parser.go, src/parser.go,
    \*      src/unnamed/part_002, src/dialects/sqlite/parser/parser.go) ----
    called,     \* the method called on its own, the parser copy (arg) and the token it started at
    callResult  \* what the call returned, or that it panicked

lexVars == <<Raw, Cur, Bol, Row, lexPanic, lexOp, lastToken, prevCur, emitted>>

parVars == <<toks, lexPos, cur, peeked, errors, ctx, stack, panicking, retTok,
             retNode, stmts, abortAt, abortDepth, resumeAt>>

eqVars == <<eqFamily, eqA, eqB, eqC, eqResult>>

exprVars == <<exprParser, exprToks, exprResult>>

repVars == <<repRaw, repRange, repHeader>>

callVars == <<called, callResult>>

vars == <<Raw, Cur, Bol, Row, lexPanic, lexOp, lastToken, prevCur, emitted,
          toks, lexPos, cur, peeked, errors, ctx, stack, panicking, retTok,
          retNode, stmts, abortAt, abortDepth, resumeAt,
          eqFamily, eqA, eqB, eqC, eqResult,
          exprParser, exprToks, exprResult, repRaw, repRange, repHeader,
          called, callResult>>

-----------------------------------------------------------------------------
(* Bounds *)

\* the longest source text the lexer is run on, in code points
MaxLen == 3

\* the longest token sequence the parser is run on (Scenarios apart)
MaxToks == 3

-----------------------------------------------------------------------------
(* Code points.  SP, NL and TAB stand for ' ', '\n' and '\t'.              *)

SP == "SP"
NL == "NL"
TAB == "TAB"

Chars == {";", "=", "!", "<", ">", "'", ".", "0", "1", "x", "a", "f",
          SP, NL, TAB, "/", "*", "-", "+"}

Letters == {"x", "a", "f", "b", "e", "s", "i", "n", "o"}
Digits == {"0", "1"}
HexDigits == {"0", "1", "a", "f", "b", "e"}
OctalDigits == {"0", "1"}

\* unicode.IsLetter(r) || r == '_'
isIdentifierStart(r) == r \in Letters \/ r = "_"

\* The zero value of a Go rune, returned by peekRune together with io.EOF.
NoRune == "NUL"

\* The keyword lexemes that can be spelled with Letters (keywordIndex).
keywordIndex == [ lexeme \in {<<"a", "s">>, <<"i", "f">>, <<"i", "n">>, <<"o", "n">>, <<"n", "o">>}
                  |-> CASE lexeme = <<"a", "s">> -> "KW_AS"
                        [] lexeme = <<"i", "f">> -> "KW_IF"
                        [] lexeme = <<"i", "n">> -> "KW_IN"
                        [] lexeme = <<"o", "n">> -> "KW_ON"
                        [] lexeme = <<"n", "o">> -> "KW_NO" ]

\* TokenKind_EOF is TokenKindOffset_ASCII = 0, the zero value of TokenKind.
TokenKind_EOF == "EOF"

-----------------------------------------------------------------------------
(* The lexer's cursor operations.  A lexer value t is the record           *)
(* [Cur, Bol, Row, panic]; panic records an out-of-range read of Raw.      *)

Slice(start, end) == SubSeq(Raw, start + 1, end)

Eof(t) == t.Cur = Len(Raw)

\* Raw[t.Cur]; the caller must have checked t.Cur < len(Raw), else Go panics.
InRange(t) == t.Cur < Len(Raw)
currentRune(t) == IF InRange(t) THEN Raw[t.Cur + 1] ELSE NoRune

peekRune(t) ==
    IF t.Cur + 1 >= Len(Raw)
    THEN [err |-> TRUE, r |-> NoRune]
    ELSE [err |-> FALSE, r |-> Raw[t.Cur + 2]]

eat(t) ==
    IF t.panic THEN t
    ELSE IF ~InRange(t) THEN [t EXCEPT !.panic = TRUE]
    ELSE [t EXCEPT !.Cur = @ + 1]

\* A read of currentRune() outside a !Eof() guard.
readCurrent(t) == IF t.panic \/ InRange(t) THEN t ELSE [t EXCEPT !.panic = TRUE]

newline(t) == [t EXCEPT !.Bol = t.Cur, !.Row = @ + 1]

RECURSIVE MultilineCommentLoop(_)
MultilineCommentLoop(t) ==
    IF Eof(t) THEN t
    ELSE LET p == peekRune(t) IN
         IF ~p.err /\ currentRune(t) = "*" /\ p.r = "/"
         THEN eat(eat(t))
         ELSE IF currentRune(t) = NL
              THEN MultilineCommentLoop(newline(eat(t)))
              ELSE MultilineCommentLoop(eat(t))

RECURSIVE LineCommentLoop(_)
LineCommentLoop(t) ==
    IF ~Eof(t) /\ currentRune(t) # NL THEN LineCommentLoop(eat(t)) ELSE t

RECURSIVE LeadingTriviaLoop(_)
LeadingTriviaLoop(t) ==
    IF Eof(t) THEN t
    ELSE LET c == currentRune(t)
             p == peekRune(t)
         IN CASE c = "/" ->
                   IF ~p.err /\ p.r = "*"
                   THEN LeadingTriviaLoop(MultilineCommentLoop(eat(eat(t))))
                   ELSE t
              [] c = NL -> LeadingTriviaLoop(newline(eat(t)))
              [] c = SP -> LeadingTriviaLoop(eat(t))
              [] c = "-" ->
                   IF ~p.err /\ p.r = "-"
                   THEN LeadingTriviaLoop(LineCommentLoop(t))
                   ELSE t
              [] OTHER -> t

consumeLeadingTrivia(t) == LeadingTriviaLoop(t)

RECURSIVE TrailingTriviaLoop(_)
TrailingTriviaLoop(t) ==
    IF Eof(t) THEN t
    ELSE LET c == currentRune(t)
             p == peekRune(t)
         IN CASE c = "/" ->
                   IF ~p.err /\ p.r = "*"
                   THEN TrailingTriviaLoop(MultilineCommentLoop(eat(eat(t))))
                   ELSE t
              [] c = NL -> newline(eat(t))
              [] c = SP -> TrailingTriviaLoop(eat(t))
              [] c = "-" ->
                   IF ~p.err /\ p.r = "-"
                   THEN TrailingTriviaLoop(LineCommentLoop(t))
                   ELSE t
              [] OTHER -> t

consumeTrailingTrivia(t) == TrailingTriviaLoop(t)

RECURSIVE identifierLoop(_)
identifierLoop(t) ==
    IF ~Eof(t) /\ (currentRune(t) \in Letters \/ currentRune(t) \in Digits \/ currentRune(t) = "_")
    THEN identifierLoop(eat(t))
    ELSE t

identifier(t) == identifierLoop(t)

RECURSIVE decimalLoop(_, _, _)
decimalLoop(t, hasPeriod, hasExpon) ==
    IF Eof(t) THEN t
    ELSE IF ~hasPeriod /\ currentRune(t) = "." THEN decimalLoop(eat(t), TRUE, hasExpon)
    ELSE IF ~hasExpon /\ currentRune(t) = "e" THEN decimalLoop(eat(t), hasPeriod, TRUE)
    ELSE IF currentRune(t) \notin Digits THEN t
    ELSE decimalLoop(eat(t), hasPeriod, hasExpon)

\* After the loop the code reads currentRune() with no Eof() guard.
decimalNumeric(t) ==
    LET u == readCurrent(decimalLoop(t, FALSE, FALSE))
    IN IF ~u.panic /\ currentRune(u) = "f" THEN eat(u) ELSE u

RECURSIVE digitLoop(_, _)
digitLoop(t, digits) ==
    IF ~Eof(t) /\ (currentRune(t) \in digits \/ currentRune(t) = "_")
    THEN digitLoop(eat(t), digits)
    ELSE t

hexNumeric(t) ==
    LET u == eat(eat(t)) IN IF u.panic THEN u ELSE digitLoop(u, HexDigits)

binaryNumeric(t) ==
    LET u == eat(eat(t)) IN IF u.panic THEN u ELSE digitLoop(u, {"0", "1"})

octalNumeric(t) ==
    LET u == eat(eat(t)) IN IF u.panic THEN u ELSE digitLoop(u, OctalDigits)

\* The loop of the '"' and '\'' cases: stop at an unescaped closing quote.
RECURSIVE quotedLoop(_, _, _)
quotedLoop(t, quote, prev) ==
    IF Eof(t) THEN t
    ELSE IF currentRune(t) = quote /\ prev # "\\" THEN t
    ELSE quotedLoop(eat(t), quote, currentRune(t))


\* The '"' and '\'' cases: the text runs from after the opening quote to
\* t.Cur after the closing quote has been eaten.
quoted(t, quote, kind) ==
    LET opened == eat(t)
        body == quotedLoop(opened, quote, NoRune)
        closed == eat(body)
    IN [t |-> closed, Kind |-> kind,
        Text |-> IF closed.panic THEN <<>> ELSE Slice(opened.Cur, closed.Cur)]

\* '!' and '>': the rune after the eaten one is read with no Eof() guard.
bangOrGreater(t, single, double) ==
    LET u == readCurrent(eat(t))
    IN IF ~u.panic /\ currentRune(u) = "="
       THEN [t |-> eat(u), Kind |-> double, Text |-> <<single, "=">>]
       ELSE [t |-> u, Kind |-> single, Text |-> <<single>>]

\* '<': the '<=' branch has no return, so kind and text are overwritten.
lessThan(t) ==
    LET u == readCurrent(eat(t))
    IN [t |-> IF ~u.panic /\ currentRune(u) = "=" THEN eat(u) ELSE u,
        Kind |-> "<", Text |-> <<"<">>]

numeric(t, kind, scanned) ==
    [t |-> scanned, Kind |-> kind,
     Text |-> IF scanned.panic THEN <<>> ELSE Slice(t.Cur, scanned.Cur)]

\* case '0': `switch p, err := t.peekRune(); err != io.EOF` compares each
\* case expression with the tag err != io.EOF.
zeroPrefixed(t) ==
    LET p == peekRune(t)
        tag == ~p.err
    IN IF (p.r = "x") = tag THEN numeric(t, "Hex", hexNumeric(t))
       ELSE IF (p.r = "b") = tag THEN numeric(t, "Binary", binaryNumeric(t))
       ELSE IF (p.r = "0") = tag THEN numeric(t, "Octal", octalNumeric(t))
       ELSE numeric(t, "Decimal", decimalNumeric(t))

word(t) ==
    LET u == identifier(t)
        text == Slice(t.Cur, u.Cur)
    IN [t |-> u,
        Kind |-> IF text \in DOMAIN keywordIndex THEN keywordIndex[text] ELSE "Identifier",
        Text |-> text]

\* The switch of NextToken and the identifier test after it, entered with
\* t.Cur at the first rune after the leading trivia.
scanToken(t) ==
    LET c == currentRune(t) IN
    IF ~InRange(t) THEN [t |-> readCurrent(t), Kind |-> TokenKind_EOF, Text |-> <<>>]
    ELSE CASE c \in {";", ",", "(", ")", "=", "-", "*", "/"} ->
                [t |-> eat(t), Kind |-> c, Text |-> <<c>>]
           [] c = "!" -> bangOrGreater(t, "!", "neq")
           [] c = ">" -> bangOrGreater(t, ">", "gte")
           [] c = "<" -> lessThan(t)
           [] c = "\"" -> quoted(t, "\"", "Identifier")
           [] c = "'" -> quoted(t, "'", "String")
           [] c = "." ->
                LET p == peekRune(t) IN
                IF ~p.err /\ p.r \in Digits
                THEN numeric(t, "Decimal", decimalNumeric(t))
                ELSE [t |-> eat(t), Kind |-> ".", Text |-> <<".">>]
           [] c = "0" -> zeroPrefixed(t)
           [] c \in Digits \ {"0"} -> numeric(t, "Decimal", decimalNumeric(t))
           [] OTHER ->
                IF isIdentifierStart(c) THEN word(t)
                ELSE [t |-> t, Kind |-> TokenKind_EOF, Text |-> <<>>]

EofToken(t) ==
    [Kind |-> TokenKind_EOF, Text |-> <<>>, Start |-> 0, End |-> 0,
     Leading |-> <<>>, Trailing |-> <<>>, Line |-> t.Row, Col |-> t.Cur]

\* NextToken: the lexer value after the call and the token it returns.
\* The deferred function sets the end of the range, the location and the
\* trailing trivia after the switch has returned.
NextToken(t) ==
    IF Eof(t) THEN [t |-> t, tok |-> EofToken(t)]
    ELSE LET led == consumeLeadingTrivia(t)
             sc == scanToken(led)
             trailed == consumeTrailingTrivia(sc.t)
         IN [t |-> IF sc.t.panic THEN sc.t ELSE trailed,
             tok |-> [Kind |-> sc.Kind, Text |-> sc.Text,
                      Start |-> led.Cur, End |-> sc.t.Cur,
                      Leading |-> Slice(t.Cur, led.Cur),
                      Trailing |-> Slice(sc.t.Cur, trailed.Cur),
                      Line |-> sc.t.Row, Col |-> led.Cur - sc.t.Bol + 1]]

\* PeekToken with a pointer receiver: the call moves the lexer itself.
PeekTokenPointerReceiver(t) == NextToken(t)

\* PeekToken has a value receiver: NextToken runs on a copy of the lexer.
PeekToken(t) == [t |-> [t EXCEPT !.panic = NextToken(t).t.panic], tok |-> NextToken(t).tok]

TokenString(tok) == tok.Leading \o tok.Text \o tok.Trailing



-----------------------------------------------------------------------------
(* The parser's view of the lexer.  The parser is run on a source that     *)
(* lexes to the kinds toks: the i-th NextToken call returns token i and,   *)
(* once every token has been produced, the EOF token.  The trailing trivia *)
(* of the last token reaches the end of the buffer, so Eof() (Cur ==       *)
(* len(Raw)) holds exactly when lexPos = Len(toks).  Trivia and text are   *)
(* named symbolically by the token's index.                                *)

ParseKinds == {";", "COMMIT", "BEGIN", "TRANSACTION", "CREATE", "TRIGGER", "END",
               "PRAGMA", "Identifier", "=", "(", ")", "."}

Keywords == {"COMMIT", "BEGIN", "TRANSACTION", "CREATE", "TRIGGER", "END", "PRAGMA",
             "TRUE", "FALSE", "ON", "TABLE", "DEFAULT", "NULL", "IF", "NOT", "EXISTS",
             "CONSTRAINT", "STRICT", "WITHOUT", "ROWID", "PRIMARY", "KEY",
             "AUTOINCREMENT", "ASC", "DESC", "COLLATE"}
Punctuation == {";", "=", "(", ")", ".", ","}

\* The zero Token: what Token{} is, and NextToken's EOF token but for FileLoc.
ZeroToken == [Kind |-> TokenKind_EOF, Range |-> 0, Leading |-> <<>>, Text |-> <<>>, Trailing |-> <<>>]

TokenAt(i) ==
    IF i \in 1..Len(toks)
    THEN [Kind |-> toks[i], Range |-> i, Leading |-> << <<"lead", i>> >>,
          Text |-> << <<"text", i>> >>, Trailing |-> << <<"trail", i>> >>]
    ELSE ZeroToken

\* Lexer.Eof()
LexerEof(p) == p.lexPos = Len(toks)

\* Lexer.NextToken(): the token returned and the lexer's new position.
LexerNextToken(p) ==
    IF LexerEof(p) THEN [lexPos |-> p.lexPos, tok |-> ZeroToken]
    ELSE [lexPos |-> p.lexPos + 1, tok |-> TokenAt(p.lexPos + 1)]

\* Lexer.PeekToken(): NextToken on a copy of the lexer.
LexerPeekToken(p) == LexerNextToken(p).tok

\* Token.String()
String(tok) == tok.Leading \o tok.Text \o tok.Trailing

\* Token.InsertionCost() and Token.DeletionCost() of package tik: keywords and
\* punctuation are cheap to synthesize, identifiers and literals expensive;
\* punctuation is cheap to delete.
InsertionCost(kind) ==
    IF kind \in Keywords THEN 1 ELSE IF kind \in Punctuation THEN 2 ELSE 5

DeletionCost(tok) ==
    IF tok.Kind \in Punctuation THEN 1
    ELSE IF tok.Kind \in Keywords THEN 3
    ELSE IF tok.Kind = TokenKind_EOF THEN 10
    ELSE 4

-----------------------------------------------------------------------------
(* The parser's control primitives.  A parser value p is the record        *)
(* [cur, peeked, lexPos, errors, ctx].                                     *)

Parser == [cur |-> cur, peeked |-> peeked, lexPos |-> lexPos, errors |-> errors, ctx |-> ctx]

Advance(p) ==
    LET n == LexerNextToken(p)
        q == [p EXCEPT !.cur = n.tok, !.lexPos = n.lexPos]
    IN [q EXCEPT !.peeked = LexerPeekToken(q)]

\* Variant: the `has` test is missing, so a later report overwrites.
ReportErrorNeverPanics(p) == FALSE

\* ReportError panics when the range of the current token already has a report.
ReportErrorPanics(p) == p.cur.Range \in DOMAIN p.errors

ReportError(p, report) ==
    IF ReportErrorPanics(p) THEN p
    ELSE [p EXCEPT !.errors = (p.cur.Range :> report) @@ p.errors]

ExpectReport(p, kind) ==
    [msg |-> "expected", kind |-> kind, got |-> p.cur.Kind,
     context |-> IF p.ctx = <<>> THEN "" ELSE p.ctx[Len(p.ctx)].Name]

\* Variant: the skip branch advances once, returning the skipped token's
\* successor while it is still current.
ExpectSkipAdvancesOnce(p, kind) ==
    IF p.cur.Kind = kind
    THEN [p |-> Advance(p), tok |-> p.cur, panic |-> FALSE]
    ELSE IF p.cur.Range \in DOMAIN p.errors
    THEN [p |-> p, tok |-> ZeroToken, panic |-> TRUE]
    ELSE LET reported == ReportError(p, ExpectReport(p, kind)) IN
         IF reported.peeked.Kind = kind
         THEN LET skipped == Advance(reported)
                  realToken == [skipped.cur EXCEPT
                                  !.Leading = String(reported.cur) \o skipped.cur.Leading]
              IN [p |-> skipped, tok |-> realToken, panic |-> FALSE]
         ELSE IF InsertionCost(kind) <= DeletionCost(reported.cur)
         THEN [p |-> reported, tok |-> [ZeroToken EXCEPT !.Kind = kind], panic |-> FALSE]
         ELSE LET advanced == Advance(reported)
                  deleted == [advanced EXCEPT
                                !.cur.Leading = String(reported.cur) \o advanced.cur.Leading]
              IN [p |-> deleted, tok |-> deleted.cur, panic |-> FALSE]

\* Variant: the synthesis branch advances (the commented-out p.Advance()).
ExpectSynthesisAdvances(p, kind) ==
    IF p.cur.Kind = kind
    THEN [p |-> Advance(p), tok |-> p.cur, panic |-> FALSE]
    ELSE IF p.cur.Range \in DOMAIN p.errors
    THEN [p |-> p, tok |-> ZeroToken, panic |-> TRUE]
    ELSE LET reported == ReportError(p, ExpectReport(p, kind)) IN
         IF reported.peeked.Kind = kind
         THEN LET skipped == Advance(reported)
                  realToken == [skipped.cur EXCEPT
                                  !.Leading = String(reported.cur) \o skipped.cur.Leading]
              IN [p |-> Advance(skipped), tok |-> realToken, panic |-> FALSE]
         ELSE IF InsertionCost(kind) <= DeletionCost(reported.cur)
         THEN [p |-> Advance(reported), tok |-> [ZeroToken EXCEPT !.Kind = kind], panic |-> FALSE]
         ELSE LET advanced == Advance(reported)
                  deleted == [advanced EXCEPT
                                !.cur.Leading = String(reported.cur) \o advanced.cur.Leading]
              IN [p |-> deleted, tok |-> deleted.cur, panic |-> FALSE]

\* Expect(kind): the parser after the call, the token returned, and whether
\* the call panicked instead of returning.
Expect(p, kind) ==
    IF p.cur.Kind = kind
    THEN [p |-> Advance(p), tok |-> p.cur, panic |-> FALSE]
    ELSE IF p.cur.Range \in DOMAIN p.errors
    THEN [p |-> p, tok |-> ZeroToken, panic |-> TRUE]
    ELSE LET reported == ReportError(p, ExpectReport(p, kind)) IN
         IF reported.peeked.Kind = kind
         THEN LET skipped == Advance(reported)
                  realToken == [skipped.cur EXCEPT
                                  !.Leading = String(reported.cur) \o skipped.cur.Leading]
              IN [p |-> Advance(skipped), tok |-> realToken, panic |-> FALSE]
         ELSE IF InsertionCost(kind) <= DeletionCost(reported.cur)
         THEN [p |-> reported, tok |-> [ZeroToken EXCEPT !.Kind = kind], panic |-> FALSE]
         ELSE LET advanced == Advance(reported)
                  deleted == [advanced EXCEPT
                                !.cur.Leading = String(reported.cur) \o advanced.cur.Leading]
              IN [p |-> deleted, tok |-> deleted.cur, panic |-> FALSE]

PushParseContext(p, name) ==
    [p EXCEPT !.ctx = Append(p.ctx, [Name |-> name, Start |-> p.cur.Range, End |-> p.cur.Range])]

\* The ending token is set on the top entry, which Stack.Pop then removes.
PopParseContext(p) ==
    IF Len(p.ctx) > 0 THEN [p EXCEPT !.ctx = SubSeq(p.ctx, 1, Len(p.ctx) - 1)] ELSE p


-----------------------------------------------------------------------------
(* The parsing methods.  Each method is the sequence of its steps: enter   *)
(* (PushParseContext followed by defer PopParseContext), expect, advance,  *)
(* call of another method, switch on CurrentToken.Kind, the !Lexer.Eof()   *)
(* loop test, ReportError, panic, append to the statements, and return.  A *)
(* step continues at `to`, or at the next step when `to` is 0.  The CREATE *)
(* branches for VIEW, INDEX, UNIQUE, VIRTUAL and TEMPORARY, the literal     *)
(* pragma values, and the constraints other than DEFAULT are not modelled: *)
(* no source holds such a token.  CREATE TABLE is reached by the complete  *)
(* statements among the sources only.                                      *)

Ins(op, arg, to) == [op |-> op, arg |-> arg, tbl |-> <<>>, to |-> to]
Enter(name) == Ins("enter", name, 0)
ExpectKind(kind) == Ins("expect", kind, 0)
AdvanceTo(to) == Ins("advance", "", to)
Call(proc, to) == Ins("call", proc, to)
Switch(tbl, default) == [op |-> "switch", arg |-> "", tbl |-> tbl, to |-> default]
AtEofGoto(to) == Ins("eof", "", to)
Report(note, to) == Ins("error", note, to)
AppendStatement == Ins("append", "", 0)
Return(node) == Ins("ret", node, 0)
Panic(message) == Ins("panic", message, 0)

\* Statements: the loop `for !p.Lexer.Eof()` around the guarded closure.
Statements ==
    << AtEofGoto(3),
       Call("StatementGuard", 1),
       Return("statements") >>

\* The closure of Statements: steps 1-4 are its body, steps 5-6 its deferred
\* function when recover() returns a panic value.
StatementGuard ==
    << Call("Statement", 0),
       AppendStatement,
       ExpectKind(";"),
       Return("none"),
       Call("synchronize", 0),
       Return("none") >>

RecoverStep == 5

\* Variant: the sync token is found but not consumed.
synchronizeKeepsSemicolon ==
    << AtEofGoto(5),
       Switch((";" :> 5), 4),
       AdvanceTo(5),
       AdvanceTo(1),
       Return("none") >>

synchronize ==
    << AtEofGoto(5),
       Switch((";" :> 3), 4),
       AdvanceTo(5),
       AdvanceTo(1),
       Return("none") >>

Statement ==
    << Enter("statement"),
       Switch(("PRAGMA" :> 3) @@ ("CREATE" :> 4) @@ ("BEGIN" :> 5) @@ ("COMMIT" :> 6), 8),
       Call("PragmaStatement", 9),
       Call("CreateStatement", 9),
       Call("BeginStatement", 9),
       AdvanceTo(0),
       Return("CommitTransaction"),
       Report("unknown token at start of sql statement", 10),
       Return("pass"),
       Return("nil") >>

BeginStatement ==
    << ExpectKind("BEGIN"),
       ExpectKind("TRANSACTION"),
       Return("BeginTransaction") >>

PragmaStatement ==
    << Enter("pragma statement"),
       ExpectKind("PRAGMA"),
       Call("CatalogObjectIdentifier", 0),
       Switch(("=" :> 5) @@ ("(" :> 8), 12),
       AdvanceTo(0),
       Call("PragmaValue", 0),
       Return("Pragma"),
       AdvanceTo(0),
       Call("PragmaValue", 0),
       ExpectKind(")"),
       Return("Pragma"),
       Report("unknown token after pragma identifier", 0),
       Return("nil") >>

PragmaValue ==
    << Enter("pragma value"),
       Switch(("Identifier" :> 3), 5),
       AdvanceTo(0),
       Return("value"),
       Report("unknown token for pragma value", 0),
       Return("nil") >>

CreateStatement ==
    << Enter("statement"),
       ExpectKind("CREATE"),
       Switch(("TRIGGER" :> 4) @@ ("TABLE" :> 8), 6),
       Call("CreateTriggerStatement", 0),
       Return("pass"),
       Report("unknown token for create statement", 0),
       Return("nil"),
       Call("CreateTableStatement", 5) >>

\* CreateTableStatement(createKeyword, false)
CreateTableStatement ==
    << Enter("create table statement"),
       ExpectKind("TABLE"),
       Call("MaybeIfNotExists", 0),
       Call("CatalogObjectIdentifier", 0),
       Call("TableDefinition", 0),
       Call("TableOptions", 0),
       Return("CreateTable") >>

MaybeIfNotExists ==
    << Enter("if not exists"),
       Switch(("IF" :> 4), 3),
       Return("nil"),
       AdvanceTo(0),
       ExpectKind("NOT"),
       ExpectKind("EXISTS"),
       Return("IfNotExists") >>

TableDefinition ==
    << Enter("table definition"),
       ExpectKind("("),
       Call("ColumnDefinitions", 0),
       Call("TableConstraints", 0),
       ExpectKind(")"),
       Return("TableDefinition") >>

\* tik.ConstaintKeywords: the keywords a constraint starts with
ConstaintKeywords ==
    {"CONSTRAINT", "PRIMARY", "FOREIGN", "UNIQUE", "CHECK", "DEFAULT", "COLLATE",
     "REFERENCES", "GENERATED"}

ColumnDefinitions ==
    << Enter("column definitions"),
       AtEofGoto(6),
       Switch(("," :> 4) @@ (")" :> 6) @@ [k \in ConstaintKeywords |-> 6], 5),
       AdvanceTo(2),
       Call("ColumnDefinition", 2),
       Return("ColumnDefinitions") >>

ColumnDefinition ==
    << Enter("column definition"),
       Call("Identifier", 0),
       Call("TypeName", 0),
       Call("ColumnConstraints", 0),
       Return("ColumnDefinition") >>

TypeName ==
    << Enter("type name"),
       Call("Identifier", 0),
       Return("TypeName") >>

\* the method ColumnConstraints
ParseColumnConstraints ==
    << Enter("column constraints"),
       AtEofGoto(5),
       Switch(("," :> 5) @@ (")" :> 5), 4),
       Call("ColumnConstraint", 2),
       Return("ColumnConstraints") >>

ColumnConstraint ==
    << Enter("column constraint"),
       Call("MaybeConstraintName", 0),
       Switch(("DEFAULT" :> 4), 6),
       Call("ColumnConstraint_Default", 0),
       Return("pass"),
       Report("expected beginning of column constraint", 0),
       Return("nil") >>

MaybeConstraintName ==
    << Enter("constraint name"),
       Switch(("CONSTRAINT" :> 4), 3),
       Return("nil"),
       AdvanceTo(0),
       Call("Identifier", 0),
       Return("ConstraintName") >>

\* The kinds ColumnConstraint_Default has a case for.
DefaultValueKinds ==
    {"StringLiteral", "DecimalNumericLiteral", "BinaryNumericLiteral",
     "HexNumericLiteral", "OctalNumericLiteral", "TRUE", "FALSE", "Identifier"}

\* Any other token after DEFAULT ends in panic("not implemented").
ColumnConstraint_Default ==
    << Enter("default column constraint"),
       ExpectKind("DEFAULT"),
       Switch([k \in DefaultValueKinds |-> 4], 6),
       AdvanceTo(0),
       Return("ColumnConstraint_Default"),
       Panic("not implemented") >>

\* the method TableConstraints
ParseTableConstraints ==
    << Enter("table constraints"),
       AtEofGoto(6),
       Switch((")" :> 6) @@ ("," :> 4), 5),
       AdvanceTo(2),
       Call("TableConstraint", 2),
       Return("TableConstraints") >>

\* ReportWarning records nothing in the errors.
TableConstraint ==
    << Enter("table constraint"),
       Call("MaybeConstraintName", 0),
       Report("unexpected token for table constraint", 0),
       Return("nil") >>

TableOptions ==
    << Enter("table options"),
       AtEofGoto(7),
       Switch(("STRICT" :> 4) @@ ("WITHOUT" :> 5), 7),
       AdvanceTo(2),
       AdvanceTo(0),
       Ins("expect", "ROWID", 2),
       Return("TableOptions") >>

\* The three loops have no end-of-file test.
CreateTriggerStatement ==
    << Enter("create trigger statement"),
       ExpectKind("TRIGGER"),
       Switch(("BEGIN" :> 5), 4),
       AdvanceTo(3),
       AdvanceTo(0),
       Switch((";" :> 8), 7),
       AdvanceTo(6),
       AdvanceTo(0),
       Switch(("END" :> 11), 10),
       AdvanceTo(9),
       AdvanceTo(0),
       Return("CreateTrigger") >>

CatalogObjectIdentifier ==
    << Enter("catalog object identifier"),
       Call("Identifier", 0),
       Switch(("." :> 5), 4),
       Return("CatalogObjectIdentifier"),
       AdvanceTo(0),
       Call("Identifier", 0),
       Return("CatalogObjectIdentifier") >>

Identifier ==
    << Enter("identifier"),
       ExpectKind("Identifier"),
       Return("Identifier") >>

Program ==
    [ Statements |-> Statements,
      StatementGuard |-> StatementGuard,
      synchronize |-> synchronize,
      Statement |-> Statement,
      BeginStatement |-> BeginStatement,
      PragmaStatement |-> PragmaStatement,
      PragmaValue |-> PragmaValue,
      CreateStatement |-> CreateStatement,
      CreateTriggerStatement |-> CreateTriggerStatement,
      CreateTableStatement |-> CreateTableStatement,
      MaybeIfNotExists |-> MaybeIfNotExists,
      TableDefinition |-> TableDefinition,
      ColumnDefinitions |-> ColumnDefinitions,
      ColumnDefinition |-> ColumnDefinition,
      TypeName |-> TypeName,
      ColumnConstraints |-> ParseColumnConstraints,
      ColumnConstraint |-> ColumnConstraint,
      MaybeConstraintName |-> MaybeConstraintName,
      ColumnConstraint_Default |-> ColumnConstraint_Default,
      TableConstraints |-> ParseTableConstraints,
      TableConstraint |-> TableConstraint,
      TableOptions |-> TableOptions,
      CatalogObjectIdentifier |-> CatalogObjectIdentifier,
      Identifier |-> Identifier ]


-----------------------------------------------------------------------------
(* The parser as a state machine.  A frame of the call stack is            *)
(* [proc, pc, deferPop, depth0, at0]: the method, its next step, whether   *)
(* it has deferred PopParseContext, and the depth of the parse-context     *)
(* stack and the range of the current token when it was called.            *)

Top == stack[Len(stack)]
Step == Program[Top.proc][Top.pc]
Running == stack # <<>> /\ ~panicking
NextPc(ins) == IF ins.to = 0 THEN Top.pc + 1 ELSE ins.to
Goto(pc) == [stack EXCEPT ![Len(stack)].pc = pc]
Callers == SubSeq(stack, 1, Len(stack) - 1)

SetParser(p) ==
    /\ cur' = p.cur
    /\ peeked' = p.peeked
    /\ lexPos' = p.lexPos
    /\ errors' = p.errors
    /\ ctx' = p.ctx

\* panic(...): the deferred calls of the active methods run next.
RaisePanic ==
    /\ panicking' = TRUE
    /\ abortAt' = cur.Range
    /\ abortDepth' = Len(ctx)
    /\ UNCHANGED <<toks, lexPos, cur, peeked, errors, ctx, stack, retTok, retNode, stmts, resumeAt>>

DoEnter ==
    /\ Running /\ Step.op = "enter"
    /\ UNCHANGED <<lexVars, eqVars, exprVars, repVars, callVars>>
    /\ SetParser(PushParseContext(Parser, Step.arg))
    /\ stack' = [stack EXCEPT ![Len(stack)].pc = NextPc(Step), ![Len(stack)].deferPop = TRUE]
    /\ UNCHANGED <<toks, panicking, retTok, retNode, stmts, abortAt, abortDepth, resumeAt>>

DoExpect ==
    /\ Running /\ Step.op = "expect"
    /\ UNCHANGED <<lexVars, eqVars, exprVars, repVars, callVars>>
    /\ LET r == Expect(Parser, Step.arg) IN
         IF r.panic THEN RaisePanic
         ELSE /\ SetParser(r.p)
              /\ retTok' = r.tok
              /\ stack' = Goto(NextPc(Step))
              /\ UNCHANGED <<toks, panicking, retNode, stmts, abortAt, abortDepth, resumeAt>>

DoAdvance ==
    /\ Running /\ Step.op = "advance"
    /\ UNCHANGED <<lexVars, eqVars, exprVars, repVars, callVars>>
    /\ SetParser(Advance(Parser))
    /\ stack' = Goto(NextPc(Step))
    /\ UNCHANGED <<toks, panicking, retTok, retNode, stmts, abortAt, abortDepth, resumeAt>>

DoSwitch ==
    /\ Running /\ Step.op = "switch"
    /\ UNCHANGED <<lexVars, eqVars, exprVars, repVars, callVars>>
    /\ stack' = Goto(IF cur.Kind \in DOMAIN Step.tbl THEN Step.tbl[cur.Kind] ELSE Step.to)
    /\ UNCHANGED <<toks, lexPos, cur, peeked, errors, ctx, panicking, retTok, retNode, stmts, abortAt, abortDepth, resumeAt>>

DoEofTest ==
    /\ Running /\ Step.op = "eof"
    /\ UNCHANGED <<lexVars, eqVars, exprVars, repVars, callVars>>
    /\ stack' = Goto(IF LexerEof(Parser) THEN Step.to ELSE Top.pc + 1)
    /\ UNCHANGED <<toks, lexPos, cur, peeked, errors, ctx, panicking, retTok, retNode, stmts, abortAt, abortDepth, resumeAt>>

DoCall ==
    /\ Running /\ Step.op = "call"
    /\ UNCHANGED <<lexVars, eqVars, exprVars, repVars, callVars>>
    /\ stack' = Append(Goto(NextPc(Step)),
                       [proc |-> Step.arg, pc |-> 1, deferPop |-> FALSE, depth0 |-> Len(ctx),
                        at0 |-> cur.Range])
    /\ UNCHANGED <<toks, lexPos, cur, peeked, errors, ctx, panicking, retTok, retNode, stmts, abortAt, abortDepth, resumeAt>>

DoReportError ==
    /\ Running /\ Step.op = "error"
    /\ UNCHANGED <<lexVars, eqVars, exprVars, repVars, callVars>>
    /\ IF ReportErrorPanics(Parser) THEN RaisePanic
       ELSE /\ SetParser(ReportError(Parser, [msg |-> Step.arg, kind |-> "", got |-> cur.Kind, context |-> ""]))
            /\ stack' = Goto(NextPc(Step))
            /\ UNCHANGED <<toks, panicking, retTok, retNode, stmts, abortAt, abortDepth, resumeAt>>

DoAppend ==
    /\ Running /\ Step.op = "append"
    /\ UNCHANGED <<lexVars, eqVars, exprVars, repVars, callVars>>
    /\ stmts' = Append(stmts, retNode)
    /\ stack' = Goto(NextPc(Step))
    /\ UNCHANGED <<toks, lexPos, cur, peeked, errors, ctx, panicking, retTok, retNode, abortAt, abortDepth, resumeAt>>

\* panic("..."): no report is made.
DoPanic ==
    /\ Running /\ Step.op = "panic"
    /\ UNCHANGED <<lexVars, eqVars, exprVars, repVars, callVars>>
    /\ RaisePanic

\* return: the deferred PopParseContext runs, then the caller continues.
DoReturn ==
    /\ Running /\ Step.op = "ret"
    /\ UNCHANGED <<lexVars, eqVars, exprVars, repVars, callVars>>
    /\ SetParser(IF Top.deferPop THEN PopParseContext(Parser) ELSE Parser)
    /\ stack' = Callers
    /\ retNode' = IF Step.arg = "pass" THEN retNode ELSE Step.arg
    /\ resumeAt' = IF Top.proc = "synchronize" THEN cur.Range ELSE resumeAt
    /\ UNCHANGED <<toks, panicking, retTok, stmts, abortAt, abortDepth>>

\* Variant: PopParseContext is called at the end of the method rather than
\* deferred, so a panic skips it.
DoUnwindWithoutPop ==
    /\ stack # <<>> /\ panicking
    /\ UNCHANGED <<lexVars, eqVars, exprVars, repVars, callVars>>
    /\ Top.proc # "StatementGuard"
    /\ stack' = Callers
    /\ UNCHANGED <<toks, lexPos, cur, peeked, errors, ctx, panicking, retTok, retNode, stmts, abortAt, abortDepth, resumeAt>>

\* A panic leaves a method that does not recover: its deferred
\* PopParseContext runs and the panic continues in the caller.
DoUnwind ==
    /\ stack # <<>> /\ panicking
    /\ UNCHANGED <<lexVars, eqVars, exprVars, repVars, callVars>>
    /\ Top.proc # "StatementGuard"
    /\ SetParser(IF Top.deferPop THEN PopParseContext(Parser) ELSE Parser)
    /\ stack' = Callers
    /\ UNCHANGED <<toks, panicking, retTok, retNode, stmts, abortAt, abortDepth, resumeAt>>

\* The deferred function of the closure: recover() stops the panic and
\* synchronize() is called.
DoRecover ==
    /\ stack # <<>> /\ panicking
    /\ UNCHANGED <<lexVars, eqVars, exprVars, repVars, callVars>>
    /\ Top.proc = "StatementGuard"
    /\ panicking' = FALSE
    /\ stack' = Goto(RecoverStep)
    /\ UNCHANGED <<toks, lexPos, cur, peeked, errors, ctx, retTok, retNode, stmts, abortAt, abortDepth, resumeAt>>

\* Sources the parser is run on: every short token sequence, and some
\* complete statements.
Scenarios ==
    { <<"Identifier", ";", "COMMIT", ";">>,
      <<"BEGIN", "TRANSACTION", ";", "COMMIT", ";">>,
      <<"BEGIN", ";", "COMMIT", ";">>,
      <<"CREATE", "TRIGGER", "Identifier", "BEGIN", "COMMIT", ";", "END", ";">>,
      <<"CREATE", "TRIGGER", "Identifier", ";", "COMMIT", ";">>,
      <<"PRAGMA", "Identifier", "=", "Identifier", ";">>,
      <<"PRAGMA", "Identifier", "(", "Identifier", ")", ";">>,
      <<"PRAGMA", "=", "Identifier", ";", "COMMIT", ";">>,
      <<"CREATE", "TABLE", "Identifier", "(", "Identifier", "Identifier",
        "DEFAULT", "Identifier", ")", ";">>,
      <<"CREATE", "TABLE", "Identifier", "(", "Identifier", "Identifier",
        "DEFAULT", "NULL", ")", ";", "COMMIT", ";">>,
      <<"CREATE", "TABLE", "Identifier", "(", "Identifier", "Identifier",
        "DEFAULT", "(", "Identifier", ")", ")", ";">> }

TokenSources == UNION {[1..n -> ParseKinds] : n \in 0..MaxToks} \cup Scenarios

\* NewParser, then the call of Statements().
InitParser ==
    /\ toks \in TokenSources
    /\ LET primed == Advance([cur |-> ZeroToken, peeked |-> ZeroToken, lexPos |-> 0,
                              errors |-> <<>>, ctx |-> <<>>])
       IN /\ cur = primed.cur
          /\ peeked = primed.peeked
          /\ lexPos = primed.lexPos
    /\ errors = <<>>
    /\ ctx = <<>>
    /\ stack = << [proc |-> "Statements", pc |-> 1, deferPop |-> FALSE, depth0 |-> 0,
                    at0 |-> cur.Range] >>
    /\ panicking = FALSE
    /\ retTok = ZeroToken
    /\ retNode = "none"
    /\ stmts = <<>>
    /\ abortAt = -1
    /\ abortDepth = 0
    /\ resumeAt = -1

ParserIdle ==
    /\ toks = <<>>
    /\ cur = ZeroToken
    /\ peeked = ZeroToken
    /\ lexPos = 0
    /\ errors = <<>>
    /\ ctx = <<>>
    /\ stack = <<>>
    /\ panicking = FALSE
    /\ retTok = ZeroToken
    /\ retNode = "none"
    /\ stmts = <<>>
    /\ abortAt = -1
    /\ abortDepth = 0
    /\ resumeAt = -1

\* a nil pointer or nil interface value of the AST
Nil == [type |-> "nil"]

NoResult == [aa |-> "none", ab |-> "none", ba |-> "none", bc |-> "none",
             ac |-> "none"]

EqIdle ==
    /\ eqFamily = "none"
    /\ eqA = Nil
    /\ eqB = Nil
    /\ eqC = Nil
    /\ eqResult = NoResult

\* No expression has been parsed.
NoExpr == [tree |-> Nil, pos |-> 0, errors |-> <<>>]

ExprIdle ==
    /\ exprParser = "none"
    /\ exprToks = <<>>
    /\ exprResult = NoExpr

\* No parsing method has been called on its own.
NoCall == [method |-> "none", arg |-> "", at |-> 0]

NoCallResult == [node |-> Nil, panic |-> FALSE]

CallIdle ==
    /\ called = NoCall
    /\ callResult = NoCallResult

\* Render has not run.
NoHeader == [rendered |-> FALSE, line |-> 0, col |-> 0, gutterWidth |-> 0]

RenderIdle ==
    /\ repRaw = <<>>
    /\ repRange = [Start |-> 0, End |-> 0]
    /\ repHeader = NoHeader

-----------------------------------------------------------------------------
(* The lexer as a state machine: a client calls NextToken and PeekToken    *)
(* until NextToken has returned the EOF token at the end of the buffer.    *)

Tokenizer == [Cur |-> Cur, Bol |-> Bol, Row |-> Row, panic |-> lexPanic]

Sources == UNION {[1..n -> Chars] : n \in 0..MaxLen}

NoToken == [Kind |-> "none", Text |-> <<>>, Start |-> 0, End |-> 0,
            Leading |-> <<>>, Trailing |-> <<>>, Line |-> 0, Col |-> 0]

\* NewTokenizerFromFile: Cur 0, Row 1 (Bol has its zero value).
InitLex ==
    /\ Raw \in Sources
    /\ Cur = 0
    /\ Bol = 0
    /\ Row = 1
    /\ lexPanic = FALSE
    /\ lexOp = "init"
    /\ lastToken = NoToken
    /\ prevCur = 0
    /\ emitted = <<>>
    /\ ParserIdle
    /\ EqIdle
    /\ ExprIdle
    /\ RenderIdle
    /\ CallIdle

\* The client stops once NextToken has answered at the end of the buffer.
LexRunning == ~lexPanic /\ ~(lexOp = "next" /\ prevCur = Len(Raw))

LexNextToken ==
    /\ LexRunning
    /\ LET r == NextToken(Tokenizer) IN
         /\ Cur' = r.t.Cur
         /\ Bol' = r.t.Bol
         /\ Row' = r.t.Row
         /\ lexPanic' = r.t.panic
         /\ lastToken' = r.tok
         /\ emitted' = IF r.t.panic THEN emitted ELSE emitted \o TokenString(r.tok)
    /\ lexOp' = "next"
    /\ prevCur' = Cur
    /\ UNCHANGED Raw
    /\ UNCHANGED <<parVars, eqVars, exprVars, repVars, callVars>>

LexPeekToken ==
    /\ LexRunning
    /\ lexOp # "peek"
    /\ LET r == PeekToken(Tokenizer) IN
         /\ Cur' = r.t.Cur
         /\ Bol' = r.t.Bol
         /\ Row' = r.t.Row
         /\ lexPanic' = r.t.panic
         /\ lastToken' = r.tok
    /\ lexOp' = "peek"
    /\ prevCur' = Cur
    /\ UNCHANGED <<Raw, emitted>>
    /\ UNCHANGED <<parVars, eqVars, exprVars, repVars, callVars>>

NextLex == LexNextToken \/ LexPeekToken

SpecLex == InitLex /\ [][NextLex]_vars

LexerIdle ==
    /\ Raw = <<>>
    /\ Cur = 0
    /\ Bol = 0
    /\ Row = 1
    /\ lexPanic = FALSE
    /\ lexOp = "init"
    /\ lastToken = NoToken
    /\ prevCur = 0
    /\ emitted = <<>>

InitParse ==
    InitParser /\ LexerIdle /\ EqIdle /\ ExprIdle /\ RenderIdle /\ CallIdle

NextParse ==
    \/ DoEnter \/ DoExpect \/ DoAdvance \/ DoSwitch \/ DoEofTest \/ DoCall
    \/ DoReportError \/ DoPanic \/ DoAppend \/ DoReturn \/ DoUnwind \/ DoRecover

SpecParse == InitParse /\ [][NextParse]_vars

\* The parser is the only thread and runs whenever it can take a step.
SpecParseFair == SpecParse /\ WF_vars(NextParse)


-----------------------------------------------------------------------------
(* Structural equality of the AST (src/unnamed/part_001).  A node is a     *)
(* record tagged with its Go type; an Eq call answers "true" or "false",   *)
(* or fails: "panic" is a nil dereference, "overflow" a recursion that     *)
(* never returns (Go ends the process with a stack overflow).              *)

\* the number of distinct identifier texts
MaxNames == 2

\* the longest column list of a PRIMARY KEY table constraint
MaxCols == 2

Texts == 1..MaxNames

Failed(r) == r \in {"panic", "overflow"}

Bool(b) == IF b THEN "true" ELSE "false"

\* Go's `result = result && call`: the call is made only while result holds
AndThen(result, call) == IF result = "true" THEN call ELSE result

AstIdentifier(text) == [type |-> "Identifier", Text |-> text]

MakeKeyword(kind) == [type |-> "Keyword", Kind |-> kind]

LiteralNull == [type |-> "LiteralNull"]

LiteralInteger(text) == [type |-> "LiteralInteger", Text |-> text]

\* the operator token of a BinaryOp: its kind and its text as written
OperatorToken(kind, text) == [Kind |-> kind, Text |-> text]

MakeBinaryOpExpr(lhs, op, rhs) ==
    [type |-> "BinaryOp", Operator |-> op, Lhs |-> lhs, Rhs |-> rhs]

WhenThen(when, then) == [When |-> when, Then |-> then]

\* &ast.CaseExpression{Operand: operand, Cases: cases, Else: elseExpr}
CaseExpression(operand, cases, elseExpr) ==
    [type |-> "CaseExpression", Operand |-> operand, Cases |-> cases, Else |-> elseExpr]

MakeConstraintName(text) ==
    [type |-> "ConstraintName", Name |-> AstIdentifier(text)]

MakeCollation(text) == [type |-> "Collation", Name |-> AstIdentifier(text)]

MakeConflictClause(action) ==
    [type |-> "ConflictClause", Action |-> MakeKeyword(action)]

IndexedColumn(subject, collation, order) ==
    [type |-> "IndexedColumn", Subject |-> subject, Collation |-> collation,
     Order |-> order]

MakeTableConstraintCheck(name, expr) ==
    [type |-> "TableConstraint_Check", Name |-> name, Expr |-> expr]

MakeTableConstraintPrimaryKey(name, indexedColumns, conflictClause) ==
    [type |-> "TableConstraint_PrimaryKey", Name |-> name,
     IndexedColumns |-> indexedColumns, ConflictClause |-> conflictClause]

AstCatalogObjectIdentifier(schemaName, objectName) ==
    [type |-> "CatalogObjectIdentifier", SchemaName |-> schemaName,
     ObjectName |-> objectName]

MakeForeignKeyClause(foreignTable, foreignColumns, actions) ==
    [type |-> "ForeignKeyClause", ForeignTable |-> foreignTable,
     ForeignColumns |-> foreignColumns, Actions |-> actions]

MakeTableConstraintForeignKey(name, columns, fkClause) ==
    [type |-> "TableConstraint_ForeignKey", Name |-> name,
     Columns |-> columns, FkClause |-> fkClause]

MakeColumnConstraintPrimaryKey(name) ==
    [type |-> "ColumnConstraint_PrimaryKey", Name |-> name]

ColumnConstraint_Unique(name) ==
    [type |-> "ColumnConstraint_Unique", Name |-> name]

ColumnConstraint_Collate(name, collate) ==
    [type |-> "ColumnConstraint_Collate", Name |-> name, Collate |-> collate]

ColumnConstraint_NotNull(name) ==
    [type |-> "ColumnConstraint_NotNull", Name |-> name]

ColumnConstraint_Check(name, check) ==
    [type |-> "ColumnConstraint_Check", Name |-> name, Check |-> check]

\* (*Identifier).Eq: an Expr that is not an *Identifier is handed to
\* node.AsExpr().Eq, which is this method again with the same arguments.
Identifier_Eq(node, other) ==
    IF other = Nil THEN "false"
    ELSE IF node = Nil THEN "panic"
    ELSE IF other.type = "Identifier" THEN Bool(node.Text = other.Text)
    ELSE "overflow"

Keyword_Eq(node, other) ==
    IF node = Nil /\ other = Nil THEN "true"
    ELSE IF node # Nil /\ other # Nil THEN Bool(node.Kind = other.Kind)
    ELSE "false"

\* (*ConstraintName).Eq reads node.Name and other.Name without a nil test
ConstraintName_Eq(node, other) ==
    IF node = Nil \/ other = Nil THEN "panic"
    ELSE Identifier_Eq(node.Name, other.Name)

ConflictClause_Eq(node, other) ==
    IF node = Nil \/ other = Nil THEN "panic"
    ELSE Keyword_Eq(node.Action, other.Action)

LiteralNull_Eq(node, other) == Bool(other.type = "LiteralNull")

LiteralInteger_Eq(node, other) ==
    IF other.type = "LiteralInteger" THEN Bool(other.Text = node.Text)
    ELSE "false"

RECURSIVE Expr_Eq(_, _)

\* (*BinaryOp).Eq compares node.Lhs with node.Lhs and node.Rhs with node.Rhs
BinaryOp_Eq(node, other) ==
    IF other.type = "BinaryOp"
    THEN IF node.Operator.Text # other.Operator.Text THEN "false"
         ELSE AndThen(Expr_Eq(node.Lhs, node.Lhs), Expr_Eq(node.Rhs, node.Rhs))
    ELSE "false"

\* the loop over node.Cases of (*CaseExpression).Eq
RECURSIVE CasesLoop(_, _, _, _)
CasesLoop(result, cases, others, i) ==
    IF i > Len(cases) \/ Failed(result) THEN result
    ELSE CasesLoop(
             AndThen(AndThen(result, Expr_Eq(cases[i].When, others[i].When)),
                     Expr_Eq(cases[i].Then, others[i].Then)),
             cases, others, i + 1)

\* (*CaseExpression).Eq calls Eq on Operand and on Else without a nil test
CaseExpression_Eq(node, other) ==
    IF other.type = "CaseExpression"
    THEN IF Len(node.Cases) # Len(other.Cases) THEN "false"
         ELSE AndThen(CasesLoop(Expr_Eq(node.Operand, other.Operand),
                                node.Cases, other.Cases, 1),
                      Expr_Eq(node.Else, other.Else))
    ELSE "false"

\* a call of Eq on a value of the Expr interface
Expr_Eq(node, other) ==
    CASE node.type = "nil" -> "panic"
      [] node.type = "Identifier" -> Identifier_Eq(node, other)
      [] node.type = "LiteralNull" -> LiteralNull_Eq(node, other)
      [] node.type = "LiteralInteger" -> LiteralInteger_Eq(node, other)
      [] node.type = "BinaryOp" -> BinaryOp_Eq(node, other)
      [] node.type = "CaseExpression" -> CaseExpression_Eq(node, other)

\* (*IndexedColumn).Eq: unless both collations are present, the else-if
\* reads the Name of a nil *Collation
IndexedColumn_Eq(node, other) ==
    LET subject == Expr_Eq(node.Subject, other.Subject)
        collation ==
            IF node.Collation # Nil /\ other.Collation # Nil
            THEN AndThen(subject, Identifier_Eq(node.Collation.Name,
                                                node.Collation.Name))
            ELSE "panic"
    IN  IF Failed(subject) THEN subject
        ELSE IF Failed(collation) THEN collation
        ELSE IF node.Order # Nil /\ other.Order # Nil
             THEN AndThen(collation, Keyword_Eq(node.Order, other.Order))
        ELSE IF node.Order # Nil \/ other.Order # Nil THEN "false"
        ELSE collation

\* the loop over node.IndexedColumns of (*TableConstraint_PrimaryKey).Eq
RECURSIVE IndexedColumnsLoop(_, _, _, _)
IndexedColumnsLoop(result, columns, others, i) ==
    IF i > Len(columns) \/ Failed(result) THEN result
    ELSE IndexedColumnsLoop(
             AndThen(result, IndexedColumn_Eq(columns[i], others[i])),
             columns, others, i + 1)

\* the `if both / else if either` comparison of two optional fields
\* (compared is the outcome of comparing a with b)
Optional(result, a, b, compared) ==
    IF Failed(result) THEN result
    ELSE IF a # Nil /\ b # Nil THEN AndThen(result, compared)
    ELSE IF a # Nil \/ b # Nil THEN "return false"
    ELSE result

\* (*TableConstraint_PrimaryKey).Eq: result is computed and then dropped,
\* the method ends with `return true`
TableConstraint_PrimaryKey_Eq(node, other) ==
    IF other.type # "TableConstraint_PrimaryKey" THEN "false"
    ELSE IF Len(node.IndexedColumns) # Len(other.IndexedColumns) THEN "false"
    ELSE LET named == Optional("true", node.Name, other.Name,
                 ConstraintName_Eq(node.Name, other.Name))
             columns == IndexedColumnsLoop(named, node.IndexedColumns,
                                           other.IndexedColumns, 1)
             conflict == Optional(columns, node.ConflictClause,
                                  other.ConflictClause,
                                  ConflictClause_Eq(node.ConflictClause,
                                                    other.ConflictClause))
         IN  IF named = "return false" THEN "false"
             ELSE IF Failed(columns) THEN columns
             ELSE IF conflict = "return false" THEN "false"
             ELSE IF Failed(conflict) THEN conflict
             ELSE "true"

\* (*TableConstraint_Check).Eq: the names are compared without a nil test,
\* and an argument of another variant is answered with true
TableConstraint_Check_Eq(node, other) ==
    IF other.type = "TableConstraint_Check"
    THEN LET named == ConstraintName_Eq(node.Name, other.Name)
         IN  IF Failed(named) \/ named = "true" THEN named
             ELSE Expr_Eq(node.Expr, other.Expr)
    ELSE "true"

\* (*CatalogObjectIdentifier).Eq
CatalogObjectIdentifier_Eq(node, other) ==
    IF other = Nil THEN "false"
    ELSE LET schema == Optional("true", node.SchemaName, other.SchemaName,
                           Identifier_Eq(node.SchemaName, other.SchemaName))
         IN  IF schema = "return false" THEN "false"
             ELSE AndThen(schema, Identifier_Eq(node.ObjectName, other.ObjectName))

\* slices.SortedFunc(slices.Values(columns), cmp): the identifiers in
\* ascending order of Text
RECURSIVE SortedFunc(_)
SortedFunc(columns) ==
    IF columns = <<>> THEN <<>>
    ELSE LET least == CHOOSE i \in DOMAIN columns :
                          \A j \in DOMAIN columns :
                              \/ columns[i].Text < columns[j].Text
                              \/ columns[i].Text = columns[j].Text /\ i <= j
             rest == [k \in 1..(Len(columns) - 1) |->
                          IF k < least THEN columns[k] ELSE columns[k + 1]]
         IN  <<columns[least]>> \o SortedFunc(rest)

\* a loop `result = result && a[i].Eq(&b[i])` over two identifier lists
RECURSIVE IdentifiersLoop(_, _, _, _)
IdentifiersLoop(result, a, b, i) ==
    IF i > Len(a) \/ Failed(result) THEN result
    ELSE IF i > Len(b) THEN "panic"
    ELSE IdentifiersLoop(AndThen(result, Identifier_Eq(a[i], b[i])), a, b, i + 1)

\* (*ForeignKeyClause).Eq: the foreign columns are compared sorted, the
\* actions by their number only
ForeignKeyClause_Eq(node, other) ==
    IF Len(node.ForeignColumns) # Len(other.ForeignColumns) THEN "false"
    ELSE IF Len(node.Actions) # Len(other.Actions) THEN "false"
    ELSE IdentifiersLoop(
             CatalogObjectIdentifier_Eq(node.ForeignTable, other.ForeignTable),
             SortedFunc(node.ForeignColumns), SortedFunc(other.ForeignColumns), 1)

\* (*TableConstraint_ForeignKey).pairColumns indexes FkClause.ForeignColumns
\* by the positions of Columns: out of range when the clause is shorter
pairColumnsPanics(node) ==
    Len(node.FkClause.ForeignColumns) < Len(node.Columns)

\* (*TableConstraint_ForeignKey).pairColumns: the i-th local column with the
\* i-th foreign column, in the order listed
pairColumns(node) ==
    [i \in DOMAIN node.Columns |->
         [A |-> node.Columns[i], B |-> node.FkClause.ForeignColumns[i]]]

IdentifierPair_Eq(this, other) ==
    AndThen(Identifier_Eq(this.A, other.A), Identifier_Eq(this.B, other.B))

\* the loop over thisPairs of (*TableConstraint_ForeignKey).Eq
RECURSIVE PairsLoop(_, _, _, _)
PairsLoop(result, thisPairs, otherPairs, i) ==
    IF i > Len(thisPairs) \/ Failed(result) THEN result
    ELSE PairsLoop(AndThen(result, IdentifierPair_Eq(thisPairs[i], otherPairs[i])),
                   thisPairs, otherPairs, i + 1)

\* (*TableConstraint_ForeignKey).Eq: two names decide alone; otherwise the
\* pairs are compared position by position, then the clauses
TableConstraint_ForeignKey_Eq(node, other) ==
    IF other.type # "TableConstraint_ForeignKey" THEN "false"
    ELSE IF node.Name # Nil /\ other.Name # Nil
         THEN ConstraintName_Eq(node.Name, other.Name)
    ELSE IF node.Name # Nil \/ other.Name # Nil THEN "false"
    ELSE IF pairColumnsPanics(node) \/ pairColumnsPanics(other) THEN "panic"
    ELSE LET thisPairs == pairColumns(node)
             otherPairs == pairColumns(other)
         IN  IF Len(thisPairs) # Len(otherPairs) THEN "false"
             ELSE LET pairs == PairsLoop("true", thisPairs, otherPairs, 1)
                  IN  IF Failed(pairs) THEN pairs
                      ELSE AndThen(pairs, ForeignKeyClause_Eq(node.FkClause,
                                                              other.FkClause))

\* a call of Eq on a value of the TableConstraint interface
TableConstraint_Eq(node, other) ==
    CASE node.type = "TableConstraint_Check" ->
             TableConstraint_Check_Eq(node, other)
      [] node.type = "TableConstraint_PrimaryKey" ->
             TableConstraint_PrimaryKey_Eq(node, other)
      [] node.type = "TableConstraint_ForeignKey" ->
             TableConstraint_ForeignKey_Eq(node, other)

\* the Eq of the column constraints that compare nothing but the name
NamedOnly_Eq(node, other) ==
    IF other.type = node.type
    THEN LET named == Optional("true", node.Name, other.Name,
                 ConstraintName_Eq(node.Name, other.Name))
         IN  IF named = "return false" THEN "false" ELSE named
    ELSE "false"

ColumnConstraint_PrimaryKey_Eq(node, other) == NamedOnly_Eq(node, other)

ColumnConstraint_NotNull_Eq(node, other) == NamedOnly_Eq(node, other)

ColumnConstraint_Unique_Eq(node, other) ==
    Bool(other.type = "ColumnConstraint_Unique")

ColumnConstraint_Collate_Eq(node, other) ==
    IF other.type = "ColumnConstraint_Collate"
    THEN LET named == Optional("true", node.Name, other.Name,
                 ConstraintName_Eq(node.Name, other.Name))
         IN  IF named = "return false" THEN "false"
             ELSE AndThen(named, Identifier_Eq(node.Collate, other.Collate))
    ELSE "false"

\* (*ColumnConstraint_Check).Eq: the comparison of the names is dropped,
\* and an argument of another variant is answered with true
ColumnConstraint_Check_Eq(node, other) ==
    IF other.type = "ColumnConstraint_Check"
    THEN LET named == Optional("true", node.Name, other.Name,
                 ConstraintName_Eq(node.Name, other.Name))
         IN  IF named = "return false" THEN "false"
             ELSE IF Failed(named) THEN named
             ELSE Expr_Eq(node.Check, other.Check)
    ELSE "true"

\* a call of Eq on a value of the ColumnConstraint interface
ColumnConstraint_Eq(node, other) ==
    CASE node.type = "ColumnConstraint_PrimaryKey" ->
             ColumnConstraint_PrimaryKey_Eq(node, other)
      [] node.type = "ColumnConstraint_Unique" ->
             ColumnConstraint_Unique_Eq(node, other)
      [] node.type = "ColumnConstraint_Collate" ->
             ColumnConstraint_Collate_Eq(node, other)
      [] node.type = "ColumnConstraint_NotNull" ->
             ColumnConstraint_NotNull_Eq(node, other)
      [] node.type = "ColumnConstraint_Check" ->
             ColumnConstraint_Check_Eq(node, other)

(* The nodes Eq is applied to *)

Identifiers == {AstIdentifier(t) : t \in Texts}

Atoms == Identifiers \cup {LiteralInteger(t) : t \in Texts} \cup {LiteralNull}

Operators == {OperatorToken("=", <<"=">>), OperatorToken("<", <<"<">>)}

Exprs ==
    Atoms \cup {MakeBinaryOpExpr(l, op, r) :
                    l \in Identifiers, op \in Operators, r \in Atoms}

\* an absent name, or CONSTRAINT 1, or CONSTRAINT 2
ConstraintNames == {Nil, MakeConstraintName(1), MakeConstraintName(2)}

CheckExprs == {AstIdentifier(1), LiteralInteger(1)}

Collations == {Nil, MakeCollation(1)}

\* the column lists of a primary key: distinct columns, all of them
\* collated or none of them
Injective(f) == \A i, j \in DOMAIN f : f[i] = f[j] => i = j

ColumnLists ==
    {[i \in DOMAIN subjects |->
          IndexedColumn(AstIdentifier(subjects[i]), collation, Nil)] :
        subjects \in {f \in UNION {[1..n -> Texts] : n \in 1..MaxCols} :
                         Injective(f)},
        collation \in Collations}

TableConstraints ==
    {MakeTableConstraintCheck(name, expr) :
         name \in ConstraintNames, expr \in CheckExprs}
    \cup {MakeTableConstraintPrimaryKey(name, columns, Nil) :
              name \in ConstraintNames, columns \in ColumnLists}
    \cup {MakeTableConstraintPrimaryKey(Nil,
              <<IndexedColumn(AstIdentifier(1), MakeCollation(1), Nil)>>,
              MakeConflictClause(action)) : action \in {"ABORT", "ROLLBACK"}}

ColumnConstraints ==
    {ColumnConstraint_Check(name, expr) :
         name \in ConstraintNames, expr \in CheckExprs}
    \cup {MakeColumnConstraintPrimaryKey(name) : name \in ConstraintNames}
    \cup {ColumnConstraint_Unique(name) : name \in ConstraintNames}
    \cup {ColumnConstraint_NotNull(name) : name \in ConstraintNames}
    \cup {ColumnConstraint_Collate(name, collate) :
              name \in ConstraintNames, collate \in Identifiers}

\* lists of distinct identifiers, at most MaxCols long
IdentifierLists ==
    {[i \in DOMAIN texts |-> AstIdentifier(texts[i])] :
        texts \in {f \in UNION {[1..n -> Texts] : n \in 1..MaxCols} :
                      Injective(f)}}

\* FOREIGN KEY (columns) REFERENCES 1 (foreignColumns), named or not
ForeignKeys ==
    {MakeTableConstraintForeignKey(name, columns,
         MakeForeignKeyClause(AstCatalogObjectIdentifier(Nil, AstIdentifier(1)),
                              foreignColumns, <<>>)) :
        name \in ConstraintNames, columns \in IdentifierLists,
        foreignColumns \in IdentifierLists}

\* indexed columns with and without a collation and an order keyword
IndexedColumns ==
    {IndexedColumn(AstIdentifier(subject), collation, order) :
         subject \in Texts,
         collation \in {Nil} \cup {MakeCollation(t) : t \in Texts},
         order \in {Nil, MakeKeyword("ASC"), MakeKeyword("DESC")}}

Families == {"TableConstraint", "ColumnConstraint", "Expr", "IndexedColumn"}

Nodes(family) ==
    CASE family = "TableConstraint" -> TableConstraints
      [] family = "ColumnConstraint" -> ColumnConstraints
      [] family = "Expr" -> Exprs
      [] family = "IndexedColumn" -> IndexedColumns

InitEq ==
    /\ eqFamily \in Families
    /\ eqA \in Nodes(eqFamily)
    /\ eqB \in Nodes(eqFamily)
    /\ eqC \in Nodes(eqFamily)
    /\ eqResult = NoResult
    /\ LexerIdle
    /\ ParserIdle
    /\ ExprIdle
    /\ RenderIdle
    /\ CallIdle

\* Each action makes the Eq calls an equivalence is judged by.
CompareTableConstraints ==
    /\ eqFamily = "TableConstraint"
    /\ eqResult = NoResult
    /\ eqResult' = [aa |-> TableConstraint_Eq(eqA, eqA), ab |-> TableConstraint_Eq(eqA, eqB),
                    ba |-> TableConstraint_Eq(eqB, eqA), bc |-> TableConstraint_Eq(eqB, eqC),
                    ac |-> TableConstraint_Eq(eqA, eqC)]
    /\ UNCHANGED <<eqFamily, eqA, eqB, eqC, lexVars, parVars, exprVars, repVars, callVars>>

CompareColumnConstraints ==
    /\ eqFamily = "ColumnConstraint"
    /\ eqResult = NoResult
    /\ eqResult' = [aa |-> ColumnConstraint_Eq(eqA, eqA), ab |-> ColumnConstraint_Eq(eqA, eqB),
                    ba |-> ColumnConstraint_Eq(eqB, eqA), bc |-> ColumnConstraint_Eq(eqB, eqC),
                    ac |-> ColumnConstraint_Eq(eqA, eqC)]
    /\ UNCHANGED <<eqFamily, eqA, eqB, eqC, lexVars, parVars, exprVars, repVars, callVars>>

CompareExprs ==
    /\ eqFamily = "Expr"
    /\ eqResult = NoResult
    /\ eqResult' = [aa |-> Expr_Eq(eqA, eqA), ab |-> Expr_Eq(eqA, eqB),
                    ba |-> Expr_Eq(eqB, eqA), bc |-> Expr_Eq(eqB, eqC),
                    ac |-> Expr_Eq(eqA, eqC)]
    /\ UNCHANGED <<eqFamily, eqA, eqB, eqC, lexVars, parVars, exprVars, repVars, callVars>>

CompareIndexedColumns ==
    /\ eqFamily = "IndexedColumn"
    /\ eqResult = NoResult
    /\ eqResult' = [aa |-> IndexedColumn_Eq(eqA, eqA), ab |-> IndexedColumn_Eq(eqA, eqB),
                    ba |-> IndexedColumn_Eq(eqB, eqA), bc |-> IndexedColumn_Eq(eqB, eqC),
                    ac |-> IndexedColumn_Eq(eqA, eqC)]
    /\ UNCHANGED <<eqFamily, eqA, eqB, eqC, lexVars, parVars, exprVars, repVars, callVars>>

NextEq ==
    \/ CompareTableConstraints \/ CompareColumnConstraints \/ CompareExprs
    \/ CompareIndexedColumns

SpecEq == InitEq /\ [][NextEq]_vars

\* Pairs of nodes: the table constraints include the foreign keys, and
\* the third node is the first.
\* the keyword IN as written in upper and in lower case
KeywordOperators ==
    {OperatorToken("IN", <<"I", "N">>), OperatorToken("IN", <<"i", "n">>)}

\* CASE expressions with and without an operand and an ELSE
CaseExprs ==
    {CaseExpression(operand, <<WhenThen(when, then)>>, elseExpr) :
         operand \in {Nil, AstIdentifier(1)},
         when \in {AstIdentifier(1), LiteralInteger(1)},
         then \in {LiteralInteger(1), LiteralNull},
         elseExpr \in {Nil, LiteralInteger(1)}}

PairExprs ==
    Exprs \cup CaseExprs
          \cup {MakeBinaryOpExpr(l, op, r) :
                    l \in Identifiers, op \in KeywordOperators, r \in Atoms}

PairNodes(family) ==
    CASE family = "TableConstraint" -> TableConstraints \cup ForeignKeys
      [] family = "Expr" -> PairExprs
      [] OTHER -> Nodes(family)

InitEqPairs ==
    /\ eqFamily \in Families
    /\ eqA \in PairNodes(eqFamily)
    /\ eqB \in PairNodes(eqFamily)
    /\ eqC = eqA
    /\ eqResult = NoResult
    /\ LexerIdle
    /\ ParserIdle
    /\ ExprIdle
    /\ RenderIdle
    /\ CallIdle

SpecEqPairs == InitEqPairs /\ [][NextEq]_vars

-----------------------------------------------------------------------------
(* Operator expressions.  Expr is the Pratt loop of the sqlite parser       *)
(* (src/parser/parser.go) and of the parser of package main                *)
(* (src/parser.go, binding powers in src/unnamed/part_003).  The source is *)
(* the sequence src of token kinds; a parser position pos is the index of  *)
(* CurrentToken (Len(src) + 1: the EOF token), and the lexer has then      *)
(* produced min(pos, Len(src)) tokens.  A result is [tree, pos, errors]:   *)
(* the expression, the position the parser is left at and the positions    *)
(* of the tokens an error was reported at.                                 *)

MaxExprToks == 5

ExprOperators == {"=", "+", "-", "*", "/", "gte", "IN"}

ExprKinds == ExprOperators \cup {"Identifier"}

BindingPower(l, r) == [L |-> l, R |-> r, found |-> TRUE]

NoBindingPower == [L |-> 0, R |-> 0, found |-> FALSE]

\* Parser.nextOperatorBindingPower of the sqlite parser
nextOperatorBindingPower(kind) ==
    CASE kind = "=" -> BindingPower(40, 41)
      [] kind = "+" -> BindingPower(60, 61)
      [] kind = "-" -> BindingPower(60, 61)
      [] kind = "*" -> BindingPower(120, 121)
      [] kind = "/" -> BindingPower(120, 121)
      [] kind = "gte" -> BindingPower(50, 51)
      [] kind = "IN" -> BindingPower(40, 41)
      [] OTHER -> NoBindingPower

\* Parser.MaybeBinaryOperator of package main and the bindingPower() of the
\* operator node it returns (EquivOp, AddOp, SubOp, MulOp, DivOp, GteOp, InOp)
bindingPower(kind) ==
    CASE kind = "=" -> BindingPower(40, 40)
      [] kind = "+" -> BindingPower(60, 61)
      [] kind = "-" -> BindingPower(60, 61)
      [] kind = "*" -> BindingPower(120, 121)
      [] kind = "/" -> BindingPower(120, 121)
      [] kind = "gte" -> BindingPower(50, 50)
      [] kind = "IN" -> BindingPower(40, 40)
      [] OTHER -> NoBindingPower

OperatorBindingPower(parser, kind) ==
    IF parser = "sqlite" THEN nextOperatorBindingPower(kind) ELSE bindingPower(kind)

\* CurrentToken.Kind
KindAt(src, pos) == IF pos \in 1..Len(src) THEN src[pos] ELSE TokenKind_EOF

\* Lexer.Eof() / tokenizer.Eof(): every token has been produced.
ExprLexerEof(src, pos) == pos >= Len(src)

\* Nud and Identifier_Nud: an identifier is a leaf (no '(' or '.' follows in
\* these sources); at any other token the sqlite parser reports an error and
\* returns nil, the parser of package main returns an Error node.  Neither
\* advances.
Nud(parser, src, pos, errs) ==
    IF KindAt(src, pos) = "Identifier"
    THEN [tree |-> [type |-> "Identifier", at |-> pos], pos |-> pos + 1, errors |-> errs]
    ELSE [tree |-> IF parser = "sqlite" THEN Nil ELSE [type |-> "Error", at |-> pos],
          pos |-> pos,
          errors |-> Append(errs, pos)]

\* BinaryOp{Operator: opToken, Lhs: lhs, Rhs: rhs}
BinaryOp(kind, at, lhs, rhs) ==
    [type |-> "BinaryOp", Operator |-> kind, at |-> at, Lhs |-> lhs, Rhs |-> rhs]

RECURSIVE Expr(_, _, _, _, _)
RECURSIVE ExprLoop(_, _, _, _, _, _)

\* The loop of Expr: for !Lexer.Eof() { ... }
ExprLoop(parser, src, lhs, pos, errs, minBindingPower) ==
    LET power == OperatorBindingPower(parser, KindAt(src, pos))
        done == [tree |-> lhs, pos |-> pos, errors |-> errs]
    IN  IF ExprLexerEof(src, pos) THEN done
        ELSE IF ~power.found THEN done
        ELSE IF power.L < minBindingPower THEN done
        ELSE LET rhs == Expr(parser, src, pos + 1, errs, power.R)
             IN  ExprLoop(parser, src, BinaryOp(src[pos], pos, lhs, rhs.tree),
                          rhs.pos, rhs.errors, minBindingPower)

\* Parser.Expr(minBindingPower)
Expr(parser, src, pos, errs, minBindingPower) ==
    LET lhs == Nud(parser, src, pos, errs)
    IN  ExprLoop(parser, src, lhs.tree, lhs.pos, lhs.errors, minBindingPower)

ExprSources == UNION {[1..n -> ExprKinds] : n \in 0..MaxExprToks}

InitExpr ==
    /\ exprParser = "none"
    /\ exprToks \in ExprSources
    /\ exprResult = NoExpr
    /\ LexerIdle
    /\ ParserIdle
    /\ EqIdle
    /\ RenderIdle
    /\ CallIdle

\* NewSqliteParser(lexer) followed by Expr(0)
ParseSqliteExpr ==
    /\ exprParser = "none"
    /\ exprParser' = "sqlite"
    /\ exprResult' = Expr("sqlite", exprToks, 1, <<>>, 0)
    /\ UNCHANGED <<exprToks, lexVars, parVars, eqVars, repVars, callVars>>

\* NewParser(tokenizer) followed by Expr(0)
ParseMainExpr ==
    /\ exprParser = "none"
    /\ exprParser' = "main"
    /\ exprResult' = Expr("main", exprToks, 1, <<>>, 0)
    /\ UNCHANGED <<exprToks, lexVars, parVars, eqVars, repVars, callVars>>

NextExpr == ParseSqliteExpr \/ ParseMainExpr

SpecExpr == InitExpr /\ [][NextExpr]_vars

-----------------------------------------------------------------------------
(* The diagnostic renderer (src/report.go).  Render is run on a report     *)
(* with one label; of its output the model keeps the snippet header        *)
(* `<file>:<line>:<col>` and the gutter width.  Offsets count code points  *)
(* from 0, as TextRange does.                                              *)

MaxRepLen == 4

\* strings.Split(string(src.Raw), "\n"): the contents of the lines
RECURSIVE Split(_)
Split(raw) ==
    IF \A i \in 1..Len(raw) : raw[i] # NL THEN <<raw>>
    ELSE LET i == CHOOSE j \in 1..Len(raw) :
                      raw[j] = NL /\ \A k \in 1..(j - 1) : raw[k] # NL
         IN  <<SubSeq(raw, 1, i - 1)>> \o Split(SubSeq(raw, i + 1, Len(raw)))

\* len(fmt.Sprintf("%d", n)) for n >= 0
RECURSIVE DecimalWidth(_)
DecimalWidth(n) == IF n < 10 THEN 1 ELSE 1 + DecimalWidth(n \div 10)

\* The loop of getLinesInRange from line currentLine on.
RECURSIVE LinesLoop(_, _, _, _, _)
LinesLoop(lines, currentLine, lineStartOffset, tr, result) ==
    IF currentLine > Len(lines) THEN result
    ELSE LET content == lines[currentLine]
             lineEndOffset == lineStartOffset + Len(content)
             col == IF tr.Start > lineStartOffset THEN tr.Start - lineStartOffset ELSE 0
             appended ==
                 IF lineEndOffset >= tr.Start /\ lineStartOffset <= tr.End
                 THEN Append(result, [LineNum |-> currentLine, Content |-> content, Col |-> col])
                 ELSE result
         IN  IF lineEndOffset + 1 > tr.End THEN appended
             ELSE LinesLoop(lines, currentLine + 1, lineEndOffset + 1, tr, appended)

\* Renderer.getLinesInRange
getLinesInRange(raw, tr) == LinesLoop(Split(raw), 1, 0, tr, <<>>)

\* The snippet header Render writes for a label, and the gutter width it sets;
\* a label with no line is skipped.
RenderHeader(raw, tr) ==
    LET lines == getLinesInRange(raw, tr)
    IN  IF Len(lines) = 0 THEN NoHeader
        ELSE [rendered |-> TRUE,
              line |-> lines[1].LineNum,
              col |-> lines[1].Col,
              gutterWidth |-> DecimalWidth(lines[Len(lines)].LineNum) + 1]

RenderSources == UNION {[1..n -> {"a", NL}] : n \in 0..MaxRepLen}

\* A label's range lies inside its source: 0 <= Start <= End <= len(Raw).
InitRender ==
    /\ repRaw \in RenderSources
    /\ repRange \in {[Start |-> s, End |-> e] : s \in 0..MaxRepLen, e \in 0..MaxRepLen}
    /\ repRange.Start <= repRange.End
    /\ repRange.End <= Len(repRaw)
    /\ repHeader = NoHeader
    /\ LexerIdle
    /\ ParserIdle
    /\ EqIdle
    /\ ExprIdle
    /\ CallIdle

\* Renderer.Render
Render ==
    /\ ~repHeader.rendered
    /\ repHeader' = RenderHeader(repRaw, repRange)
    /\ UNCHANGED <<repRaw, repRange, lexVars, parVars, eqVars, exprVars, callVars>>

NextRender == Render

SpecRender == InitRender /\ [][NextRender]_vars

-----------------------------------------------------------------------------
(* Parsing methods called on their own.  A call is made on a freshly       *)
(* constructed parser, at the first token of the source, and runs to its   *)
(* return or to its panic in one step: the result is the parser after the  *)
(* call, the node returned, and whether the call panicked.  Three copies   *)
(* of the parser are called: src/parser/parser.go, its older form          *)
(* src/parser.go, and the sqlite dialect over the core parser              *)
(* (src/dialects/sqlite/parser/parser.go, src/unnamed/part_002).  A token  *)
(* converted to an Identifier or a Keyword node is the token itself.  A    *)
(* method is written as the chain of its stages, each taking the result of *)
(* the call before it.                                                     *)

\* the longest source of the full enumeration
MaxCallToks == 2

CallKinds == {"Identifier", ".", ",", "(", ")", ";", "ASC", "DESC", "AUTOINCREMENT",
              "PRIMARY", "KEY"}

Returns(p, node) == [p |-> p, node |-> node, panic |-> FALSE]

Panics(p) == [p |-> p, node |-> Nil, panic |-> TRUE]

\* defer p.PopParseContext(): it runs when the method returns or panics.
Deferred(r) == [r EXCEPT !.p = PopParseContext(r.p)]

\* the token that Expect returned, as the node of the result
TokenNode(r) == [p |-> r.p, node |-> r.tok, panic |-> r.panic]

\* Parser.Identifier()
ParseIdentifier(p) ==
    Deferred(TokenNode(Expect(PushParseContext(p, "identifier"), "Identifier")))

Collation(keyword, name) ==
    [name EXCEPT !.node = [type |-> "Collation", Keyword |-> keyword, Name |-> name.node]]

\* Parser.MaybeCollation(): COLLATE is still current when Identifier() is called.
MaybeCollation(p) ==
    IF p.cur.Kind # "COLLATE" THEN Returns(p, Nil)
    ELSE Collation(p.cur, ParseIdentifier(p))

\* SqliteParser.MaybeOrderKeyword()
MaybeOrderKeyword(p) ==
    IF p.cur.Kind \in {"ASC", "DESC"} THEN Returns(p, p.cur) ELSE Returns(p, Nil)

OrderBy(p) ==
    IF p.cur.Kind \in {"ASC", "DESC"} THEN Returns(Advance(p), p.cur) ELSE Returns(p, Nil)

\* Parser.MaybeOrderBy()
MaybeOrderBy(p) == Deferred(OrderBy(PushParseContext(p, "order by")))

\* IndexedColumn(false) from its call of MaybeOrderKeyword()/MaybeOrderBy() on.
IndexedColumnFromOrder(subject, collation, order) ==
    Returns(order.p, IndexedColumn(subject, collation, order.node))

\* IndexedColumn(false) from its call of MaybeCollation() on.
IndexedColumnFromCollation(parser, subject, collation) ==
    IF collation.panic THEN Panics(collation.p)
    ELSE IndexedColumnFromOrder(subject, collation.node,
                                IF parser = "sqlite" THEN MaybeOrderKeyword(collation.p)
                                ELSE MaybeOrderBy(collation.p))

\* IndexedColumn(false) from its call of Identifier() on.
IndexedColumnFromSubject(parser, subject) ==
    IF subject.panic THEN Panics(subject.p)
    ELSE IndexedColumnFromCollation(parser, subject.node, MaybeCollation(subject.p))

\* IndexedColumn(false) of the dialect ("sqlite") and of src/parser/parser.go.
ParseIndexedColumn(parser, p) ==
    Deferred(IndexedColumnFromSubject(parser,
                 ParseIdentifier(PushParseContext(p, "indexed column"))))

\* MaybeConflictClause(): nil unless ON is current; no source holds ON.
MaybeConflictClause(p) == Returns(p, Nil)

\* EndOfFile() of the core parser
EndOfFile(p) == p.cur.Kind = TokenKind_EOF

PrimaryKey(indexedCols, autoincrement) ==
    [type |-> "TableConstraint_PrimaryKey", IndexedColumns |-> indexedCols,
     AutoIncrement |-> autoincrement]

RECURSIVE SqliteIndexedColumns(_, _)
\* indexedCols = append(indexedCols, indexedCol), and the loop again
SqliteAppend(indexedCols, indexedCol) ==
    IF indexedCol.panic THEN Panics(indexedCol.p)
    ELSE SqliteIndexedColumns(indexedCol.p, Append(indexedCols, indexedCol.node))

\* The loop of SqliteParser.TableConstraint_PrimaryKey: it leaves at '('.
SqliteIndexedColumns(p, indexedCols) ==
    IF EndOfFile(p) \/ p.cur.Kind = "(" THEN Returns(p, indexedCols)
    ELSE IF p.cur.Kind = "," THEN SqliteIndexedColumns(Advance(p), indexedCols)
    ELSE SqliteAppend(indexedCols, ParseIndexedColumn("sqlite", p))

RECURSIVE ParserIndexedColumns(_, _)
\* indexedCols = append(indexedCols, indexedCol), and the loop again
ParserAppend(indexedCols, indexedCol) ==
    IF indexedCol.panic THEN Panics(indexedCol.p)
    ELSE ParserIndexedColumns(indexedCol.p, Append(indexedCols, indexedCol.node))

\* The loop IndexedColumnsLoop of Parser.TableConstraint_PrimaryKey.
ParserIndexedColumns(p, indexedCols) ==
    IF LexerEof(p) \/ p.cur.Kind = ")" THEN Returns(p, indexedCols)
    ELSE IF p.cur.Kind = "," THEN ParserIndexedColumns(Advance(p), indexedCols)
    ELSE ParserAppend(indexedCols, ParseIndexedColumn("parser", p))

\* TableConstraint_PrimaryKey from the conflict clause on.
PrimaryKeyConflictClause(indexedCols, autoincrement, rParen) ==
    IF rParen.panic THEN Panics(rParen.p)
    ELSE Returns(MaybeConflictClause(rParen.p).p, PrimaryKey(indexedCols, autoincrement))

\* TableConstraint_PrimaryKey from Expect(')') on.
PrimaryKeyRParen(autoincrement, indexedCols) ==
    IF indexedCols.panic THEN Panics(indexedCols.p)
    ELSE PrimaryKeyConflictClause(indexedCols.node, autoincrement,
                                  Expect(indexedCols.p, ")"))

\* TableConstraint_PrimaryKey after the first indexed column: AUTOINCREMENT
\* is consumed, or the other columns are collected.
PrimaryKeyColumns(parser, first) ==
    IF first.panic THEN Panics(first.p)
    ELSE IF first.p.cur.Kind = "AUTOINCREMENT"
    THEN PrimaryKeyRParen(first.p.cur, Returns(Advance(first.p), <<first.node>>))
    ELSE PrimaryKeyRParen(Nil, IF parser = "sqlite"
                               THEN SqliteIndexedColumns(first.p, <<first.node>>)
                               ELSE ParserIndexedColumns(first.p, <<first.node>>))

\* TableConstraint_PrimaryKey from the first indexed column on.
PrimaryKeyLParen(parser, lParen) ==
    IF lParen.panic THEN Panics(lParen.p)
    ELSE PrimaryKeyColumns(parser, ParseIndexedColumn(parser, lParen.p))

\* TableConstraint_PrimaryKey from Expect('(') on.
PrimaryKeyKey(parser, key) ==
    IF key.panic THEN Panics(key.p) ELSE PrimaryKeyLParen(parser, Expect(key.p, "("))

\* TableConstraint_PrimaryKey from Expect(KEY) on.
PrimaryKeyPrimary(parser, primary) ==
    IF primary.panic THEN Panics(primary.p)
    ELSE PrimaryKeyKey(parser, Expect(primary.p, "KEY"))

\* TableConstraint_PrimaryKey of the dialect ("sqlite") and of
\* src/parser/parser.go.
ParsePrimaryKey(parser, p) ==
    Deferred(PrimaryKeyPrimary(parser,
                 Expect(PushParseContext(p, "primary key table constraint"), "PRIMARY")))

ColumnName(schema, table, column) ==
    [type |-> "ColumnName", Schema |-> schema, Table |-> table, Column |-> column]

\* Identifier_Nud of src/parser/parser.go from `column := p.Identifier()` on.
NudColumn(ident, tableOrColumn, column) ==
    IF column.panic THEN Panics(column.p)
    ELSE Returns(column.p, ColumnName(ident, tableOrColumn, column.node))

\* Identifier_Nud of src/parser/parser.go from the test for a second '.' on.
NudTableOrColumn(ident, tableOrColumn) ==
    IF tableOrColumn.panic THEN Panics(tableOrColumn.p)
    ELSE IF tableOrColumn.p.cur.Kind # "."
    THEN Returns(Advance(tableOrColumn.p), ColumnName(Nil, ident, tableOrColumn.node))
    ELSE NudColumn(ident, tableOrColumn.node, ParseIdentifier(tableOrColumn.p))

\* Identifier_Nud of src/parser/parser.go from its switch on.
NudSwitch(ident, p) ==
    IF p.cur.Kind = "." THEN NudTableOrColumn(ident, ParseIdentifier(Advance(p)))
    ELSE Returns(p, ident)

\* Parser.Identifier_Nud() of src/parser/parser.go, but for the '(' case.
Identifier_Nud(p) ==
    Deferred(NudSwitch(p.cur, Advance(PushParseContext(p, "identifier"))))

\* NewError(...) of src/parser.go: the node returned in place of a parse.
ErrorNode(message, token) == [type |-> "Error", Message |-> message, Token |-> token]

\* the test `x.(*Error)` of src/parser.go
IsError(node) == "type" \in DOMAIN node /\ node.type = "Error"

\* Parser.Identifier() of src/parser.go
MainIdentifier(p) ==
    IF p.cur.Kind = "Identifier" THEN Returns(Advance(p), p.cur)
    ELSE Returns(p, ErrorNode("expected identifier", p.cur))

\* Identifier_Nud of src/parser.go from `column := p.Identifier()` on.
MainNudColumn(schemaOrTable, tableOrColumn, column) ==
    IF IsError(column.node) THEN column
    ELSE Returns(column.p, ColumnName(schemaOrTable, tableOrColumn, column.node))

\* Identifier_Nud of src/parser.go from the test for a second '.' on.
MainNudTableOrColumn(schemaOrTable, tableOrColumn) ==
    IF IsError(tableOrColumn.node) THEN tableOrColumn
    ELSE IF tableOrColumn.p.cur.Kind = "."
    THEN Returns(Advance(tableOrColumn.p), ColumnName(Nil, schemaOrTable, tableOrColumn.node))
    ELSE MainNudColumn(schemaOrTable, tableOrColumn.node, MainIdentifier(tableOrColumn.p))

\* Identifier_Nud of src/parser.go from its switch on.
MainNudSwitch(ident, p) ==
    IF p.cur.Kind = "." THEN MainNudTableOrColumn(ident, MainIdentifier(Advance(p)))
    ELSE Returns(p, ident)

\* Parser.Identifier_Nud() of src/parser.go, but for the '(' case.
MainIdentifier_Nud(p) == MainNudSwitch(p.cur, Advance(p))

\* Sources a method is called on: every short token sequence, and some
\* complete phrases, alone and followed by ';'.
Phrases ==
    { <<"Identifier", ".", "Identifier">>,
      <<"Identifier", ".", "Identifier", ".", "Identifier">>,
      <<"PRIMARY", "KEY", "(", "Identifier", ")">>,
      <<"PRIMARY", "KEY", "(", "Identifier", ",", "Identifier", ")">>,
      <<"PRIMARY", "KEY", "(", "Identifier", "AUTOINCREMENT", ")">>,
      <<"PRIMARY", "KEY", "(", "Identifier", "DESC", ")">> }

CallSources ==
    UNION {[1..n -> CallKinds] : n \in 0..MaxCallToks}
        \cup Phrases \cup {phrase \o <<";">> : phrase \in Phrases}

\* NewParser on one of the sources; no method has been called.
InitCall ==
    /\ toks \in CallSources
    /\ LET primed == Advance([cur |-> ZeroToken, peeked |-> ZeroToken, lexPos |-> 0,
                              errors |-> <<>>, ctx |-> <<>>])
       IN /\ cur = primed.cur
          /\ peeked = primed.peeked
          /\ lexPos = primed.lexPos
    /\ errors = <<>>
    /\ ctx = <<>>
    /\ stack = <<>>
    /\ panicking = FALSE
    /\ retTok = ZeroToken
    /\ retNode = "none"
    /\ stmts = <<>>
    /\ abortAt = -1
    /\ abortDepth = 0
    /\ resumeAt = -1
    /\ CallIdle
    /\ LexerIdle /\ EqIdle /\ ExprIdle /\ RenderIdle

\* The call of `method` of parser copy `parser` ends with result r.
Called(parser, method, r) ==
    /\ called' = [method |-> method, arg |-> parser, at |-> cur.Range]
    /\ callResult' = [node |-> r.node, panic |-> r.panic]
    /\ SetParser(r.p)
    /\ UNCHANGED <<toks, stack, panicking, retTok, retNode, stmts, abortAt, abortDepth, resumeAt>>
    /\ UNCHANGED <<lexVars, eqVars, exprVars, repVars>>

CallMaybeOrderKeyword ==
    /\ called = NoCall
    /\ Called("sqlite", "MaybeOrderKeyword", MaybeOrderKeyword(Parser))

CallMaybeOrderBy ==
    /\ called = NoCall
    /\ Called("parser", "MaybeOrderBy", MaybeOrderBy(Parser))

\* Nud() calls Identifier_Nud() when an identifier is current.
CallIdentifier_Nud ==
    /\ called = NoCall
    /\ cur.Kind = "Identifier" /\ peeked.Kind # "("
    /\ Called("parser", "Identifier_Nud", Identifier_Nud(Parser))

CallMainIdentifier_Nud ==
    /\ called = NoCall
    /\ cur.Kind = "Identifier" /\ peeked.Kind # "("
    /\ Called("main", "Identifier_Nud", MainIdentifier_Nud(Parser))

\* TableConstraint() calls TableConstraint_PrimaryKey() when PRIMARY is current.
CallSqlitePrimaryKey ==
    /\ called = NoCall
    /\ cur.Kind = "PRIMARY"
    /\ Called("sqlite", "TableConstraint_PrimaryKey", ParsePrimaryKey("sqlite", Parser))

CallPrimaryKey ==
    /\ called = NoCall
    /\ cur.Kind = "PRIMARY"
    /\ Called("parser", "TableConstraint_PrimaryKey", ParsePrimaryKey("parser", Parser))

NextCall ==
    \/ CallMaybeOrderKeyword \/ CallMaybeOrderBy
    \/ CallIdentifier_Nud \/ CallMainIdentifier_Nud
    \/ CallSqlitePrimaryKey \/ CallPrimaryKey

SpecCall == InitCall /\ [][NextCall]_vars

-----------------------------------------------------------------------------
(* Properties *)

\* C1: Statements() terminates on every finite source: the statement loop
\* eventually returns, whatever the token sequence is.
StatementsTerminates == <>(stack = <<>>)

\* C2: every NextToken call made while the cursor is not at the end of the
\* buffer strictly increases the cursor.
LexerMakesProgress ==
    (lexOp = "next" /\ ~lexPanic /\ prevCur < Len(Raw)) => Cur > prevCur

\* C3: the lexer never panics: no NextToken or PeekToken call reads a rune at
\* an index >= len(buffer), and the cursor stays within 0..len(buffer).
LexerNeverPanics == ~lexPanic /\ Cur \in 0..Len(Raw)

\* C4: lexical round trip: once NextToken has returned EOF, the concatenation
\* of leading trivia + text + trailing trivia of the tokens returned, in
\* order, is the source.
LexicalRoundTrip ==
    (lexOp = "next" /\ ~lexPanic /\ prevCur = Len(Raw)) => emitted = Raw

\* A step that reports an error at the current token: ReportError, or Expect
\* of a kind the current token does not have.
ReportsAtCurrent ==
    /\ Running
    /\ \/ Step.op = "error"
       \/ Step.op = "expect" /\ cur.Kind # Step.arg

\* C5: at most one error report per source range and the first one wins: a
\* stored report is never replaced or removed, and a later report at a range
\* that has one aborts and leaves the error set unchanged.
FirstErrorWins ==
    [][ /\ \A r \in DOMAIN errors : r \in DOMAIN errors' /\ errors'[r] = errors[r]
        /\ (ReportsAtCurrent /\ cur.Range \in DOMAIN errors)
              => (panicking' /\ errors' = errors) ]_vars

\* A later report at a range that already has one has aborted the subtree.
FirstErrorWinsWitness ==
    /\ panicking
    /\ abortAt \in DOMAIN errors
    /\ Cardinality(DOMAIN errors) >= 2

\* C6: every parsing method leaves the parse-context stack as deep as it
\* found it, when it returns and when a panic unwinds it; the stack is empty
\* whenever Statements() is at its loop and when it has returned.
ParseContextBalanced ==
    /\ [][ (stack # <<>> /\ Len(stack') < Len(stack)) => Len(ctx') = Top.depth0 ]_vars
    /\ [](Len(stack) <= 1 => ctx = <<>>)

\* A panic raised two contexts deep has been unwound and Statements() has
\* returned.
ParseContextBalancedWitness ==
    /\ stack = <<>>
    /\ abortDepth >= 2
    /\ ctx = <<>>

\* The first ';' at or after token a, or 0 when there is none.
NextSemicolon(a) ==
    IF \E j \in a..Len(toks) : toks[j] = ";"
    THEN CHOOSE j \in a..Len(toks) : toks[j] = ";" /\ \A i \in a..(j - 1) : toks[i] # ";"
    ELSE 0

\* synchronize has returned to the deferred function of the closure.
Recovered == stack # <<>> /\ ~panicking /\ Top.proc = "StatementGuard" /\ Top.pc = RecoverStep + 1

CommitFollows(r) ==
    r >= 1 /\ r + 1 <= Len(toks) /\ toks[r] = "COMMIT" /\ toks[r + 1] = ";"

\* C7: a panic never leaves Statements(); after the recovery the current
\* token is the one after the first ';' at or after the abort point; and a
\* `COMMIT ;` that starts there is parsed into a statement with no report.
AbortConfinedToStatement ==
    /\ ~(panicking /\ stack = <<>>)
    /\ (Recovered /\ abortAt >= 1 /\ NextSemicolon(abortAt) \in 1..(Len(toks) - 1))
          => cur.Range = NextSemicolon(abortAt) + 1
    /\ CommitFollows(resumeAt) =>
          /\ resumeAt \notin DOMAIN errors
          /\ (resumeAt + 1) \notin DOMAIN errors
          /\ (Running /\ Top.proc = "StatementGuard" /\ Top.pc = 3 /\ cur.Range = resumeAt + 1)
                => (stmts # <<>> /\ stmts[Len(stmts)] = "CommitTransaction")
          /\ stack = <<>> => (lexPos > resumeAt /\ \E k \in DOMAIN stmts : stmts[k] = "CommitTransaction")

\* After an abort, the `COMMIT ;` that follows the next ';' has been parsed.
AbortConfinedWitness ==
    /\ stack = <<>>
    /\ CommitFollows(resumeAt)
    /\ resumeAt = NextSemicolon(abortAt) + 1
    /\ stmts # <<>> /\ stmts[Len(stmts)] = "CommitTransaction"

\* Expect(kind) is about to fail at a current token that has no report yet.
ExpectFails ==
    /\ Running /\ Step.op = "expect"
    /\ cur.Kind # Step.arg
    /\ cur.Range \notin DOMAIN errors

OneNewError ==
    /\ DOMAIN errors' = DOMAIN errors \cup {cur.Range}
    /\ \A r \in DOMAIN errors : errors'[r] = errors[r]

\* C8: when Expect(kind) fails and the peeked token has the kind, one error
\* is recorded at the current range, the parser advances two tokens, and the
\* token returned has the kind and, as leading trivia, the skipped token's
\* leading trivia + text + trailing trivia followed by its own.
ExpectSkipsOneToken ==
    [][ (ExpectFails /\ peeked.Kind = Step.arg) =>
          /\ OneNewError
          /\ cur' = TokenAt(cur.Range + 2)
          /\ peeked' = TokenAt(cur.Range + 3)
          /\ retTok'.Kind = Step.arg
          /\ retTok'.Range = cur.Range + 1
          /\ retTok'.Leading = cur.Leading \o cur.Text \o cur.Trailing
                                 \o TokenAt(cur.Range + 1).Leading ]_vars

\* Expect has returned a real token that carries a skipped token's text.
ExpectSkipsWitness ==
    /\ retTok.Range >= 2
    /\ Len(retTok.Leading) >= 4
    /\ retTok.Kind = "TRANSACTION"
    /\ (retTok.Range - 1) \in DOMAIN errors
    /\ cur.Range # retTok.Range

\* C9: when Expect(kind) fails, the peeked token has another kind and
\* InsertionCost(kind) <= DeletionCost(current), the call returns a token of
\* that kind and changes nothing but the error set, which gains one entry.
ExpectSynthesisKeepsPosition ==
    [][ (/\ ExpectFails
         /\ peeked.Kind # Step.arg
         /\ InsertionCost(Step.arg) <= DeletionCost(cur)) =>
          /\ retTok'.Kind = Step.arg
          /\ OneNewError
          /\ UNCHANGED <<cur, peeked, lexPos, ctx, stmts, toks, panicking>> ]_vars

\* Expect has returned a synthetic token and the parser has not moved.
ExpectSynthesisWitness ==
    /\ retTok.Kind = "TRANSACTION"
    /\ retTok.Range = 0
    /\ cur.Range \in DOMAIN errors
    /\ errors[cur.Range].msg = "expected"
    /\ errors[cur.Range].kind = "TRANSACTION"

\* C10: Eq is an equivalence relation on table constraints, on column
\* constraints and on expressions: a.Eq(a) holds, a.Eq(b) implies b.Eq(a),
\* and a.Eq(b) with b.Eq(c) implies a.Eq(c).
EqIsEquivalence ==
    eqResult # NoResult =>
        /\ eqResult.aa = "true"
        /\ eqResult.ab = "true" => eqResult.ba = "true"
        /\ eqResult.ab = "true" /\ eqResult.bc = "true" => eqResult.ac = "true"

IsForeignKey(node) == node.type = "TableConstraint_ForeignKey"

\* the (local column, foreign column) pairs of a foreign key, as a set
PairSet(fk) ==
    {<<fk.Columns[i].Text, fk.FkClause.ForeignColumns[i].Text>> :
        i \in DOMAIN fk.Columns}

TextSet(identifiers) == {identifiers[i].Text : i \in DOMAIN identifiers}

\* two unnamed foreign keys with as many foreign columns as columns
UnnamedForeignKeys ==
    /\ eqResult # NoResult
    /\ IsForeignKey(eqA) /\ IsForeignKey(eqB)
    /\ eqA.Name = Nil /\ eqB.Name = Nil
    /\ Len(eqA.Columns) = Len(eqA.FkClause.ForeignColumns)
    /\ Len(eqB.Columns) = Len(eqB.FkClause.ForeignColumns)

\* C11: foreign-key Eq ignores the order of the column pairs: two unnamed
\* foreign keys on the same table whose pairs form the same set are Eq,
\* and two with the same columns paired differently are not.
ForeignKeyEqIgnoresPairOrder ==
    UnnamedForeignKeys =>
        /\ PairSet(eqA) = PairSet(eqB) => eqResult.ab = "true"
        /\ ( /\ PairSet(eqA) # PairSet(eqB)
             /\ TextSet(eqA.Columns) = TextSet(eqB.Columns)
             /\ TextSet(eqA.FkClause.ForeignColumns)
                  = TextSet(eqB.FkClause.ForeignColumns) )
              => eqResult.ab = "false"

IsPrimaryKey(node) == node.type = "TableConstraint_PrimaryKey"

SubjectTexts(pk) == [i \in DOMAIN pk.IndexedColumns |-> pk.IndexedColumns[i].Subject.Text]

\* C12: two PRIMARY KEY table constraints that list the same columns in a
\* different order are not Eq.
PrimaryKeyOrderMatters ==
    ( /\ eqResult # NoResult
      /\ IsPrimaryKey(eqA) /\ IsPrimaryKey(eqB)
      /\ {SubjectTexts(eqA)[i] : i \in DOMAIN SubjectTexts(eqA)}
           = {SubjectTexts(eqB)[i] : i \in DOMAIN SubjectTexts(eqB)}
      /\ SubjectTexts(eqA) # SubjectTexts(eqB) )
        => eqResult.ab = "false"

\* C13: named constraints are identity: two constraints of the same variant
\* that carry the same CONSTRAINT name are Eq whatever their other fields.
NamedConstraintsAreIdentity ==
    ( /\ eqResult # NoResult
      /\ eqFamily \in {"TableConstraint", "ColumnConstraint"}
      /\ eqA.type = eqB.type
      /\ eqA.Name # Nil
      /\ eqA.Name = eqB.Name )
        => eqResult.ab = "true"

\* C14: constraints of different variants are never Eq, whichever of the
\* two is the receiver.
DifferentVariantsNeverEq ==
    ( /\ eqResult # NoResult
      /\ eqFamily \in {"TableConstraint", "ColumnConstraint"}
      /\ eqA.type # eqB.type )
        => eqResult.ab = "false"

\* C15: PeekToken is a pure lookahead: it leaves the cursor, the
\* beginning-of-line offset and the row counter unchanged, and the NextToken
\* call that follows returns the very token PeekToken returned (kind, text,
\* range, trivia and location).
PeekTokenIsPure ==
    [][ /\ lexOp' = "peek" => (Cur' = Cur /\ Bol' = Bol /\ Row' = Row)
        /\ (lexOp = "peek" /\ lexOp' = "next") => lastToken' = lastToken ]_vars

\* PeekToken has returned an identifier that lies ahead of a cursor an
\* earlier NextToken call has moved.
PeekTokenIsPureWitness ==
    /\ lexOp = "peek"
    /\ ~lexPanic
    /\ Cur > 0
    /\ lastToken.Kind = "Identifier"
    /\ lastToken.Start >= Cur
    /\ lastToken.End > Cur

\* NextToken has returned (it did not panic).
Returned == lexOp = "next" /\ ~lexPanic

\* Only spaces and line ends follow offset i.
OnlyWhitespaceFrom(i) == \A k \in (i + 1)..Len(Raw) : Raw[k] \in {SP, NL}

\* C16: EOF is reported consistently: NextToken returns kind EOF exactly
\* when Eof() held before the call, and also when only whitespace remained;
\* the EOF token's range starts at the end of the buffer.
EofIsConsistent ==
    /\ Returned => (lastToken.Kind = TokenKind_EOF <=> prevCur = Len(Raw))
    /\ (lexOp = "next" /\ OnlyWhitespaceFrom(prevCur)) =>
           (~lexPanic /\ lastToken.Kind = TokenKind_EOF)
    /\ (Returned /\ lastToken.Kind = TokenKind_EOF) => lastToken.Start = Len(Raw)

\* C17: every token NextToken returns has range.end - range.start equal to
\* the length of its text.
RangeLengthIsTextLength ==
    Returned => lastToken.End - lastToken.Start = Len(lastToken.Text)

TwoCharKind(c) == CASE c = "!" -> "neq" [] c = ">" -> "gte" [] c = "<" -> "lte"

\* NextToken has returned a token that starts with '!', '>' or '<'.
ComparisonScanned ==
    /\ Returned
    /\ prevCur < Len(Raw)
    /\ lastToken.Start < Len(Raw)
    /\ Raw[lastToken.Start + 1] \in {"!", ">", "<"}

\* C19: '!', '>' or '<' immediately followed by '=' is one token of kind
\* '!=', '>=' or '<=' with the two-character text; otherwise the token has
\* the single-character kind and text.
TwoCharOperators ==
    ComparisonScanned =>
        LET c == Raw[lastToken.Start + 1]
            followed == lastToken.Start + 2 <= Len(Raw) /\ Raw[lastToken.Start + 2] = "="
        IN  IF followed
            THEN lastToken.Kind = TwoCharKind(c) /\ lastToken.Text = <<c, "=">>
            ELSE lastToken.Kind = c /\ lastToken.Text = <<c>>

Leaf(i) == [type |-> "Identifier", at |-> i]

\* The precedence level the binding-power table gives an operator.
PrecedenceLevel(kind) ==
    CASE kind \in {"=", "IN"} -> 40
      [] kind = "gte" -> 50
      [] kind \in {"+", "-"} -> 60
      [] kind \in {"*", "/"} -> 120

\* Expr(0) has parsed `a op1 b op2 c`.
ThreeOperands ==
    /\ exprParser # "none"
    /\ Len(exprToks) = 5
    /\ \A i \in {1, 3, 5} : exprToks[i] = "Identifier"
    /\ \A i \in {2, 4} : exprToks[i] \in ExprOperators

\* C18: every operator's binding powers are (L, L + 1) with L its level
\* in the table, so Expr(0) parses `a op b op c` with operators of equal
\* precedence as (a op b) op c, and `a + b * c` as a + (b * c).
BindingPowersLeftAssociative ==
    /\ \A i \in 1..Len(exprToks) :
           (exprParser # "none" /\ exprToks[i] \in ExprOperators) =>
               LET power == OperatorBindingPower(exprParser, exprToks[i])
               IN  /\ power.found
                   /\ power.L = PrecedenceLevel(exprToks[i])
                   /\ power.R > power.L
    /\ (ThreeOperands /\ PrecedenceLevel(exprToks[2]) = PrecedenceLevel(exprToks[4])) =>
           exprResult.tree = BinaryOp(exprToks[4], 4,
                                      BinaryOp(exprToks[2], 2, Leaf(1), Leaf(3)),
                                      Leaf(5))
    /\ (ThreeOperands /\ exprToks[2] = "+" /\ exprToks[4] = "*") =>
           exprResult.tree = BinaryOp("+", 2, Leaf(1),
                                      BinaryOp("*", 4, Leaf(3), Leaf(5)))

\* The offset at which the line holding offset s begins.
LineBegin(s) ==
    LET breaks == {i \in 1..s : repRaw[i] = NL}
    IN  IF breaks = {} THEN 0 ELSE CHOOSE i \in breaks : \A j \in breaks : j <= i

\* C20: the snippet header of a label whose range starts at offset s, on a
\* line that begins at offset b, shows the line number counted from 1 and
\* the column s - b + 1.
HeaderColumnIsOneBased ==
    repHeader.rendered =>
        /\ repHeader.line = 1 + Cardinality({i \in 1..repRange.Start : repRaw[i] = NL})
        /\ repHeader.col = repRange.Start - LineBegin(repRange.Start) + 1

\* Two expressions have the same shape: the same variant, the same
\* identifier and literal texts, operators of the same kind.
RECURSIVE SameExpr(_, _)
SameExpr(a, b) ==
    /\ a.type = b.type
    /\ CASE a.type \in {"Identifier", "LiteralInteger"} -> a.Text = b.Text
         [] a.type = "BinaryOp" ->
                /\ a.Operator.Kind = b.Operator.Kind
                /\ SameExpr(a.Lhs, b.Lhs)
                /\ SameExpr(a.Rhs, b.Rhs)
         [] OTHER -> a = b

\* C21: two BinaryOp expressions are Eq exactly when their operators have
\* the same kind, their left operands are Eq and their right operands are
\* Eq; `a = 1` is not Eq to `b = 2`.
BinaryOpEqComparesOperands ==
    (/\ eqFamily = "Expr"
     /\ eqResult # NoResult
     /\ eqA.type = "BinaryOp"
     /\ eqB.type = "BinaryOp") => eqResult.ab = Bool(SameExpr(eqA, eqB))

\* Eq has been called on two indexed columns.
IndexedColumnsCompared == eqFamily = "IndexedColumn" /\ eqResult # NoResult

\* C22: IndexedColumn.Eq returns a boolean whatever collations are present;
\* with both collations absent the collation does not decide, with exactly
\* one absent the columns are not Eq, with both present they are Eq only
\* if the collation names have the same text.
IndexedColumnCollation ==
    IndexedColumnsCompared =>
        /\ eqResult.ab \in {"true", "false"}
        /\ (eqA.Collation = Nil /\ eqB.Collation = Nil) =>
               eqResult.ab = Bool(eqA.Subject = eqB.Subject /\ eqA.Order = eqB.Order)
        /\ ((eqA.Collation = Nil) # (eqB.Collation = Nil)) => eqResult.ab = "false"
        /\ (eqA.Collation # Nil /\ eqB.Collation # Nil /\ eqResult.ab = "true") =>
               eqA.Collation.Name.Text = eqB.Collation.Name.Text

\* C30: Eq on two expressions the parser can produce terminates and
\* returns a boolean: no unbounded recursion and no nil dereference.
ExprEqIsTotal ==
    (eqFamily = "Expr" /\ eqResult # NoResult) =>
        /\ eqResult.ab \in {"true", "false"}
        /\ eqResult.ba \in {"true", "false"}

\* synchronize() is about to return.
SynchronizeReturns == Running /\ Top.proc = "synchronize" /\ Step.op = "ret"

\* The sync tokens at or after the token synchronize started at.
SyncTokensFrom(start) == {k \in start..Len(toks) : start >= 1 /\ toks[k] = ";"}

\* C26: synchronize consumes up to and including the first ';' at or after
\* the current token and nothing after it; with no such token it consumes
\* every remaining token and leaves the EOF token current.
SynchronizeStopsAtFirstSyncToken ==
    SynchronizeReturns =>
        IF SyncTokensFrom(abortAt) = {}
        THEN cur.Kind = TokenKind_EOF
        ELSE cur = TokenAt((CHOOSE k \in SyncTokensFrom(abortAt) :
                               \A j \in SyncTokensFrom(abortAt) : k <= j) + 1)

\* Expect(kind) is running and returns rather than panicking.
ExpectReturns == Running /\ Step.op = "expect" /\ ~Expect(Parser, Step.arg).panic

\* C27: a call of Expect(kind) that returns, returns a token of that kind:
\* on a match and in the skip, synthesis and deletion branches.
ExpectReturnsRequestedKind ==
    [][ExpectReturns => retTok'.Kind = Step.arg]_vars

\* Statements() has returned.
StatementsReturned == stack = <<>> /\ ~panicking

\* C28: when Statements() returns the current token is the EOF token:
\* every token of the source has been consumed, so the last statement,
\* even one made of a single token, has produced a statement node or a
\* diagnostic.
StatementsConsumesInput ==
    StatementsReturned =>
        /\ cur.Kind = TokenKind_EOF
        /\ toks # <<>> => (stmts # <<>> \/ DOMAIN errors # {})

\* The closure of Statements() has caught an abort: its deferred function is
\* about to recover.
StatementAbandoned == panicking /\ stack # <<>> /\ Top.proc = "StatementGuard"

\* Range r lies in the statement that began at token `from` and was abandoned
\* at token `to` (0: the EOF token, which follows the last token).
InStatement(r, from, to) ==
    IF to = 0 THEN r = 0 \/ r >= from ELSE from <= r /\ r <= to

\* C29: no statement is dropped silently: whenever the guard of Statements()
\* catches an abort, the error set holds a diagnostic whose range lies
\* between the first token of the abandoned statement and the token the abort
\* was raised at.
NoStatementDroppedSilently ==
    StatementAbandoned =>
        \E r \in DOMAIN errors : InStatement(r, Top.at0, abortAt)

OrderKeywordCalled == called.method \in {"MaybeOrderKeyword", "MaybeOrderBy"}

\* C23: the optional order keyword is consumed when present: called at ASC or
\* DESC, MaybeOrderKeyword/MaybeOrderBy returns that keyword and leaves the
\* next token current; called at any other token it returns nothing and
\* leaves the current token as it was.
OrderKeywordConsumed ==
    OrderKeywordCalled =>
        IF TokenAt(1).Kind \in {"ASC", "DESC"}
        THEN callResult.node = TokenAt(1) /\ cur = TokenAt(2)
        ELSE callResult.node = Nil /\ cur = TokenAt(1)

NudCalled == called.method = "Identifier_Nud"

\* The source begins with n tokens: identifiers separated by '.'.
Dotted(n) ==
    /\ Len(toks) >= n
    /\ \A i \in 1..n : toks[i] = IF i % 2 = 1 THEN "Identifier" ELSE "."

\* C24: the null denotation of `t . c` not followed by '.' consumes those
\* three tokens, records no diagnostic and yields ColumnName(table t, column
\* c) with the token after c current; that of `s . t . c` consumes five
\* tokens and yields ColumnName(schema s, table t, column c).
QualifiedColumnNames ==
    NudCalled =>
        /\ (Dotted(3) /\ TokenAt(4).Kind # ".") =>
              /\ ~callResult.panic
              /\ DOMAIN errors = {}
              /\ callResult.node = ColumnName(Nil, TokenAt(1), TokenAt(3))
              /\ cur = TokenAt(4)
        /\ Dotted(5) =>
              /\ ~callResult.panic
              /\ callResult.node = ColumnName(TokenAt(1), TokenAt(3), TokenAt(5))
              /\ cur = TokenAt(6)

PrimaryKeyCalled == called.method = "TableConstraint_PrimaryKey"

\* The source begins PRIMARY KEY ( c1 , ... , cn ) with n plain identifiers.
ColumnList(n) ==
    /\ Len(toks) >= 3 + 2 * n
    /\ toks[1] = "PRIMARY" /\ toks[2] = "KEY" /\ toks[3] = "("
    /\ \A i \in 1..n : /\ toks[2 + 2 * i] = "Identifier"
                       /\ toks[3 + 2 * i] = IF i = n THEN ")" ELSE ","

\* The source begins PRIMARY KEY ( c1 AUTOINCREMENT ).
AutoIncrementList ==
    /\ Len(toks) >= 6
    /\ SubSeq(toks, 1, 6) = <<"PRIMARY", "KEY", "(", "Identifier", "AUTOINCREMENT", ")">>

\* C25: for PRIMARY KEY ( c1 , ... , cn ) the parser records exactly the
\* indexed columns c1..cn in source order, stops at the closing ')',
\* consumes it and records no diagnostic; when AUTOINCREMENT follows c1 it
\* records exactly one indexed column.
PrimaryKeyColumnList ==
    PrimaryKeyCalled =>
        /\ \A n \in 1..MaxCols :
              ColumnList(n) =>
                 /\ ~callResult.panic
                 /\ callResult.node.IndexedColumns =
                        [i \in 1..n |-> IndexedColumn(TokenAt(2 + 2 * i), Nil, Nil)]
                 /\ cur = TokenAt(4 + 2 * n)
                 /\ DOMAIN errors = {}
        /\ AutoIncrementList =>
              /\ ~callResult.panic
              /\ Len(callResult.node.IndexedColumns) = 1

====
